---------------------------- MODULE Spec2Model ----------------------------
(***************************************************************************)
(* Model of the Telegram testing bot of src/main.py: the tolerant answer   *)
(* parsers, grade_answers, the per-question report of finish_test and the  *)
(* per-chat session machine driven by the message and callback handlers.   *)
(*                                                                         *)
(* Conventions.                                                            *)
(*  - A Python str is a sequence of one-character strings:                 *)
(*    "a-2" is <<"a", "-", "2">>, "" is <<>>.                              *)
(*    A list of str is a sequence of such sequences: ["T","F"] is          *)
(*    << <<"T">>, <<"F">> >>.  Identifiers and type tags (question ids,    *)
(*    "single", ...) are kept as TLA+ strings.                             *)
(*  - A Python dict is a function; `k in d` is k \in DOMAIN d.             *)
(*  - Points are non-negative integers.  A score is an integer number of   *)
(*    hundredths of a point (round(x, 2) of the source): 0.67 is 67.       *)
(***************************************************************************)
EXTENDS Integers, Sequences, FiniteSets, TLC

----------------------------------------------------------------------------
(* Characters and the str methods the parsers use.                         *)
(*                                                                         *)
(* Python's str methods and the \s and \d of a str pattern work on         *)
(* Unicode; the tables below are those of the interpreter's Unicode        *)
(* database, by code point.  Ord and Chr convert between a character and   *)
(* its code point.                                                         *)

\* A character is a one-character string where a string can hold it (the
\* printable ASCII characters but the grave accent, and the escapes \t, \n,
\* \f, \r), and "U+" with the hexadecimal code point otherwise: "U+0416".

\* The characters of code points 32 to 95.
AsciiChars ==
    << " ", "!", "\"", "#", "$", "%", "&", "'", "(", ")", "*", "+", ",", "-",
       ".", "/", "0", "1", "2", "3", "4", "5", "6", "7", "8", "9", ":", ";",
       "<", "=", ">", "?", "@", "A", "B", "C", "D", "E", "F", "G", "H", "I",
       "J", "K", "L", "M", "N", "O", "P", "Q", "R", "S", "T", "U", "V", "W",
       "X", "Y", "Z", "[", "\\", "]", "^", "_" >>

\* The characters of code points 97 to 126.
LowerAlpha ==
    << "a", "b", "c", "d", "e", "f", "g", "h", "i", "j", "k", "l", "m",
       "n", "o", "p", "q", "r", "s", "t", "u", "v", "w", "x", "y", "z" >>

AsciiTail == LowerAlpha \o << "{", "|", "}", "~" >>

UpperAlpha == SubSeq(AsciiChars, 34, 59)

HexDigits == SubSeq(AsciiChars, 17, 26) \o SubSeq(AsciiChars, 34, 39)

Range(f) == {f[i] : i \in DOMAIN f}

IndexOf(seq, c) == CHOOSE i \in DOMAIN seq : seq[i] = c

\* The code point of every character written as itself.
AsciiOrd ==
    [c \in Range(AsciiChars) \cup Range(AsciiTail) \cup {"\t", "\n", "\f", "\r"} |->
        IF c = "\t" THEN 9
        ELSE IF c = "\n" THEN 10
        ELSE IF c = "\f" THEN 12
        ELSE IF c = "\r" THEN 13
        ELSE IF c \in Range(AsciiTail) THEN 96 + IndexOf(AsciiTail, c)
        ELSE 31 + IndexOf(AsciiChars, c)]

\* The number a string of hexadecimal digits writes.
RECURSIVE HexValue(_)
HexValue(h) ==
    IF Len(h) = 0 THEN 0
    ELSE 16 * HexValue(SubSeq(h, 1, Len(h) - 1))
         + (IndexOf(HexDigits, SubSeq(h, Len(h), Len(h))) - 1)

\* The hexadecimal digits of n, at least `width` of them.
RECURSIVE HexOf(_, _)
HexOf(n, width) ==
    IF n = 0 /\ width <= 0 THEN ""
    ELSE HexOf(n \div 16, width - 1) \o HexDigits[(n % 16) + 1]

\* ord(c)
Ord(c) == IF c \in DOMAIN AsciiOrd THEN AsciiOrd[c] ELSE HexValue(SubSeq(c, 3, Len(c)))

\* chr(n)
Chr(n) ==
    IF n >= 32 /\ n <= 95 THEN AsciiChars[n - 31]
    ELSE IF n >= 97 /\ n <= 126 THEN AsciiTail[n - 96]
    ELSE IF n = 9 THEN "\t"
    ELSE IF n = 10 THEN "\n"
    ELSE IF n = 12 THEN "\f"
    ELSE IF n = 13 THEN "\r"
    ELSE "U+" \o HexOf(n, 4)

\* The code points str.isspace() holds for, as ranges <<first, last>>; \s,
\* str.split() and str.strip() use the same set.
Whitespace ==
    << <<9,13>>, <<28,32>>, <<133,133>>, <<160,160>>, <<5760,5760>>,
       <<8192,8202>>, <<8232,8233>>, <<8239,8239>>, <<8287,8287>>,
       <<12288,12288>> >>

\* The code point of the digit zero of every block of ten decimal digits
\* (category Nd): the characters \d matches and int() converts.
DecimalZeros ==
    << 48, 1632, 1776, 1984, 2406, 2534, 2662, 2790, 2918, 3046, 3174, 3302,
       3430, 3558, 3664, 3792, 3872, 4160, 4240, 6112, 6160, 6470, 6608, 6784,
       6800, 6992, 7088, 7232, 7248, 42528, 43216, 43264, 43472, 43504, 43600,
       44016, 65296, 66720, 68912, 69734, 69872, 69942, 70096, 70384, 70736,
       70864, 71248, 71360, 71472, 71904, 72016, 72784, 73040, 73120, 92768,
       92864, 93008, 120782, 120792, 120802, 120812, 120822, 123200, 123632,
       125264, 130032 >>

\* str.lower() of one character that maps to one character, as runs
\* <<first, count, step, delta>>: the code points first, first + step, ...
\* (count of them) map to themselves + delta.
LowerRuns ==
    << <<65,26,1,32>>, <<192,23,1,32>>, <<216,7,1,32>>, <<256,24,2,1>>,
       <<306,3,2,1>>, <<313,8,2,1>>, <<330,23,2,1>>, <<376,1,1,-121>>,
       <<377,3,2,1>>, <<385,1,1,210>>, <<386,2,2,1>>, <<390,1,1,206>>,
       <<391,1,1,1>>, <<393,2,1,205>>, <<395,1,1,1>>, <<398,1,1,79>>,
       <<399,1,1,202>>, <<400,1,1,203>>, <<401,1,1,1>>, <<403,1,1,205>>,
       <<404,1,1,207>>, <<406,1,1,211>>, <<407,1,1,209>>, <<408,1,1,1>>,
       <<412,1,1,211>>, <<413,1,1,213>>, <<415,1,1,214>>, <<416,3,2,1>>,
       <<422,1,1,218>>, <<423,1,1,1>>, <<425,1,1,218>>, <<428,1,1,1>>,
       <<430,1,1,218>>, <<431,1,1,1>>, <<433,2,1,217>>, <<435,2,2,1>>,
       <<439,1,1,219>>, <<440,1,1,1>>, <<444,1,1,1>>, <<452,1,1,2>>,
       <<453,1,1,1>>, <<455,1,1,2>>, <<456,1,1,1>>, <<458,1,1,2>>,
       <<459,9,2,1>>, <<478,9,2,1>>, <<497,1,1,2>>, <<498,2,2,1>>,
       <<502,1,1,-97>>, <<503,1,1,-56>>, <<504,20,2,1>>, <<544,1,1,-130>>,
       <<546,9,2,1>>, <<570,1,1,10795>>, <<571,1,1,1>>, <<573,1,1,-163>>,
       <<574,1,1,10792>>, <<577,1,1,1>>, <<579,1,1,-195>>, <<580,1,1,69>>,
       <<581,1,1,71>>, <<582,5,2,1>>, <<880,2,2,1>>, <<886,1,1,1>>,
       <<895,1,1,116>>, <<902,1,1,38>>, <<904,3,1,37>>, <<908,1,1,64>>,
       <<910,2,1,63>>, <<913,17,1,32>>, <<931,9,1,32>>, <<975,1,1,8>>,
       <<984,12,2,1>>, <<1012,1,1,-60>>, <<1015,1,1,1>>, <<1017,1,1,-7>>,
       <<1018,1,1,1>>, <<1021,3,1,-130>>, <<1024,16,1,80>>, <<1040,32,1,32>>,
       <<1120,17,2,1>>, <<1162,27,2,1>>, <<1216,1,1,15>>, <<1217,7,2,1>>,
       <<1232,48,2,1>>, <<1329,38,1,48>>, <<4256,38,1,7264>>,
       <<4295,1,1,7264>>, <<4301,1,1,7264>>, <<5024,80,1,38864>>,
       <<5104,6,1,8>>, <<7312,43,1,-3008>>, <<7357,3,1,-3008>>,
       <<7680,75,2,1>>, <<7838,1,1,-7615>>, <<7840,48,2,1>>, <<7944,8,1,-8>>,
       <<7960,6,1,-8>>, <<7976,8,1,-8>>, <<7992,8,1,-8>>, <<8008,6,1,-8>>,
       <<8025,4,2,-8>>, <<8040,8,1,-8>>, <<8072,8,1,-8>>, <<8088,8,1,-8>>,
       <<8104,8,1,-8>>, <<8120,2,1,-8>>, <<8122,2,1,-74>>, <<8124,1,1,-9>>,
       <<8136,4,1,-86>>, <<8140,1,1,-9>>, <<8152,2,1,-8>>, <<8154,2,1,-100>>,
       <<8168,2,1,-8>>, <<8170,2,1,-112>>, <<8172,1,1,-7>>, <<8184,2,1,-128>>,
       <<8186,2,1,-126>>, <<8188,1,1,-9>>, <<8486,1,1,-7517>>,
       <<8490,1,1,-8383>>, <<8491,1,1,-8262>>, <<8498,1,1,28>>,
       <<8544,16,1,16>>, <<8579,1,1,1>>, <<9398,26,1,26>>, <<11264,48,1,48>>,
       <<11360,1,1,1>>, <<11362,1,1,-10743>>, <<11363,1,1,-3814>>,
       <<11364,1,1,-10727>>, <<11367,3,2,1>>, <<11373,1,1,-10780>>,
       <<11374,1,1,-10749>>, <<11375,1,1,-10783>>, <<11376,1,1,-10782>>,
       <<11378,1,1,1>>, <<11381,1,1,1>>, <<11390,2,1,-10815>>,
       <<11392,50,2,1>>, <<11499,2,2,1>>, <<11506,1,1,1>>, <<42560,23,2,1>>,
       <<42624,14,2,1>>, <<42786,7,2,1>>, <<42802,31,2,1>>, <<42873,2,2,1>>,
       <<42877,1,1,-35332>>, <<42878,5,2,1>>, <<42891,1,1,1>>,
       <<42893,1,1,-42280>>, <<42896,2,2,1>>, <<42902,10,2,1>>,
       <<42922,1,1,-42308>>, <<42923,1,1,-42319>>, <<42924,1,1,-42315>>,
       <<42925,1,1,-42305>>, <<42926,1,1,-42308>>, <<42928,1,1,-42258>>,
       <<42929,1,1,-42282>>, <<42930,1,1,-42261>>, <<42931,1,1,928>>,
       <<42932,8,2,1>>, <<42948,1,1,-48>>, <<42949,1,1,-42307>>,
       <<42950,1,1,-35384>>, <<42951,2,2,1>>, <<42960,1,1,1>>, <<42966,2,2,1>>,
       <<42997,1,1,1>>, <<65313,26,1,32>>, <<66560,40,1,40>>,
       <<66736,36,1,40>>, <<66928,19,2,39>>, <<66929,10,1,39>>,
       <<66941,14,1,39>>, <<66957,6,1,39>>, <<66965,1,1,39>>,
       <<68736,51,1,64>>, <<71840,32,1,32>>, <<93760,32,1,32>>,
       <<125184,34,1,34>> >>

\* str.lower() of one character that maps to several: <<code point, the
\* code points it maps to>>.
LowerSpecial ==
    << <<304,105,775>> >>

\* str.upper() of one character that maps to one character, as runs like
\* LowerRuns.
UpperRuns ==
    << <<97,26,1,-32>>, <<181,1,1,743>>, <<224,23,1,-32>>, <<248,7,1,-32>>,
       <<255,1,1,121>>, <<257,24,2,-1>>, <<305,1,1,-232>>, <<307,3,2,-1>>,
       <<314,8,2,-1>>, <<331,23,2,-1>>, <<378,3,2,-1>>, <<383,1,1,-300>>,
       <<384,1,1,195>>, <<387,2,2,-1>>, <<392,1,1,-1>>, <<396,1,1,-1>>,
       <<402,1,1,-1>>, <<405,1,1,97>>, <<409,1,1,-1>>, <<410,1,1,163>>,
       <<414,1,1,130>>, <<417,3,2,-1>>, <<424,1,1,-1>>, <<429,1,1,-1>>,
       <<432,1,1,-1>>, <<436,2,2,-1>>, <<441,1,1,-1>>, <<445,1,1,-1>>,
       <<447,1,1,56>>, <<453,1,1,-1>>, <<454,1,1,-2>>, <<456,1,1,-1>>,
       <<457,1,1,-2>>, <<459,1,1,-1>>, <<460,1,1,-2>>, <<462,8,2,-1>>,
       <<477,1,1,-79>>, <<479,9,2,-1>>, <<498,1,1,-1>>, <<499,1,1,-2>>,
       <<501,1,1,-1>>, <<505,20,2,-1>>, <<547,9,2,-1>>, <<572,1,1,-1>>,
       <<575,2,1,10815>>, <<578,1,1,-1>>, <<583,5,2,-1>>, <<592,1,1,10783>>,
       <<593,1,1,10780>>, <<594,1,1,10782>>, <<595,1,1,-210>>,
       <<596,1,1,-206>>, <<598,2,1,-205>>, <<601,1,1,-202>>, <<603,1,1,-203>>,
       <<604,1,1,42319>>, <<608,1,1,-205>>, <<609,1,1,42315>>,
       <<611,1,1,-207>>, <<613,1,1,42280>>, <<614,1,1,42308>>,
       <<616,1,1,-209>>, <<617,1,1,-211>>, <<618,1,1,42308>>,
       <<619,1,1,10743>>, <<620,1,1,42305>>, <<623,1,1,-211>>,
       <<625,1,1,10749>>, <<626,1,1,-213>>, <<629,1,1,-214>>,
       <<637,1,1,10727>>, <<640,1,1,-218>>, <<642,1,1,42307>>,
       <<643,1,1,-218>>, <<647,1,1,42282>>, <<648,1,1,-218>>, <<649,1,1,-69>>,
       <<650,2,1,-217>>, <<652,1,1,-71>>, <<658,1,1,-219>>, <<669,1,1,42261>>,
       <<670,1,1,42258>>, <<837,1,1,84>>, <<881,2,2,-1>>, <<887,1,1,-1>>,
       <<891,3,1,130>>, <<940,1,1,-38>>, <<941,3,1,-37>>, <<945,17,1,-32>>,
       <<962,1,1,-31>>, <<963,9,1,-32>>, <<972,1,1,-64>>, <<973,2,1,-63>>,
       <<976,1,1,-62>>, <<977,1,1,-57>>, <<981,1,1,-47>>, <<982,1,1,-54>>,
       <<983,1,1,-8>>, <<985,12,2,-1>>, <<1008,1,1,-86>>, <<1009,1,1,-80>>,
       <<1010,1,1,7>>, <<1011,1,1,-116>>, <<1013,1,1,-96>>, <<1016,1,1,-1>>,
       <<1019,1,1,-1>>, <<1072,32,1,-32>>, <<1104,16,1,-80>>, <<1121,17,2,-1>>,
       <<1163,27,2,-1>>, <<1218,7,2,-1>>, <<1231,1,1,-15>>, <<1233,48,2,-1>>,
       <<1377,38,1,-48>>, <<4304,43,1,3008>>, <<4349,3,1,3008>>,
       <<5112,6,1,-8>>, <<7296,1,1,-6254>>, <<7297,1,1,-6253>>,
       <<7298,1,1,-6244>>, <<7299,2,1,-6242>>, <<7301,1,1,-6243>>,
       <<7302,1,1,-6236>>, <<7303,1,1,-6181>>, <<7304,1,1,35266>>,
       <<7545,1,1,35332>>, <<7549,1,1,3814>>, <<7566,1,1,35384>>,
       <<7681,75,2,-1>>, <<7835,1,1,-59>>, <<7841,48,2,-1>>, <<7936,8,1,8>>,
       <<7952,6,1,8>>, <<7968,8,1,8>>, <<7984,8,1,8>>, <<8000,6,1,8>>,
       <<8017,4,2,8>>, <<8032,8,1,8>>, <<8048,2,1,74>>, <<8050,4,1,86>>,
       <<8054,2,1,100>>, <<8056,2,1,128>>, <<8058,2,1,112>>, <<8060,2,1,126>>,
       <<8112,2,1,8>>, <<8126,1,1,-7205>>, <<8144,2,1,8>>, <<8160,2,1,8>>,
       <<8165,1,1,7>>, <<8526,1,1,-28>>, <<8560,16,1,-16>>, <<8580,1,1,-1>>,
       <<9424,26,1,-26>>, <<11312,48,1,-48>>, <<11361,1,1,-1>>,
       <<11365,1,1,-10795>>, <<11366,1,1,-10792>>, <<11368,3,2,-1>>,
       <<11379,1,1,-1>>, <<11382,1,1,-1>>, <<11393,50,2,-1>>, <<11500,2,2,-1>>,
       <<11507,1,1,-1>>, <<11520,38,1,-7264>>, <<11559,1,1,-7264>>,
       <<11565,1,1,-7264>>, <<42561,23,2,-1>>, <<42625,14,2,-1>>,
       <<42787,7,2,-1>>, <<42803,31,2,-1>>, <<42874,2,2,-1>>, <<42879,5,2,-1>>,
       <<42892,1,1,-1>>, <<42897,2,2,-1>>, <<42900,1,1,48>>, <<42903,10,2,-1>>,
       <<42933,8,2,-1>>, <<42952,2,2,-1>>, <<42961,1,1,-1>>, <<42967,2,2,-1>>,
       <<42998,1,1,-1>>, <<43859,1,1,-928>>, <<43888,80,1,-38864>>,
       <<65345,26,1,-32>>, <<66600,40,1,-40>>, <<66776,36,1,-40>>,
       <<66967,19,2,-39>>, <<66968,10,1,-39>>, <<66980,14,1,-39>>,
       <<66996,6,1,-39>>, <<67004,1,1,-39>>, <<68800,51,1,-64>>,
       <<71872,32,1,-32>>, <<93792,32,1,-32>>, <<125218,34,1,-34>> >>

\* str.upper() of one character that maps to several, like LowerSpecial.
UpperSpecial ==
    << <<223,83,83>>, <<329,700,78>>, <<496,74,780>>, <<912,921,776,769>>,
       <<944,933,776,769>>, <<1415,1333,1362>>, <<7830,72,817>>,
       <<7831,84,776>>, <<7832,87,778>>, <<7833,89,778>>, <<7834,65,702>>,
       <<8016,933,787>>, <<8018,933,787,768>>, <<8020,933,787,769>>,
       <<8022,933,787,834>>, <<8064,7944,921>>, <<8065,7945,921>>,
       <<8066,7946,921>>, <<8067,7947,921>>, <<8068,7948,921>>,
       <<8069,7949,921>>, <<8070,7950,921>>, <<8071,7951,921>>,
       <<8072,7944,921>>, <<8073,7945,921>>, <<8074,7946,921>>,
       <<8075,7947,921>>, <<8076,7948,921>>, <<8077,7949,921>>,
       <<8078,7950,921>>, <<8079,7951,921>>, <<8080,7976,921>>,
       <<8081,7977,921>>, <<8082,7978,921>>, <<8083,7979,921>>,
       <<8084,7980,921>>, <<8085,7981,921>>, <<8086,7982,921>>,
       <<8087,7983,921>>, <<8088,7976,921>>, <<8089,7977,921>>,
       <<8090,7978,921>>, <<8091,7979,921>>, <<8092,7980,921>>,
       <<8093,7981,921>>, <<8094,7982,921>>, <<8095,7983,921>>,
       <<8096,8040,921>>, <<8097,8041,921>>, <<8098,8042,921>>,
       <<8099,8043,921>>, <<8100,8044,921>>, <<8101,8045,921>>,
       <<8102,8046,921>>, <<8103,8047,921>>, <<8104,8040,921>>,
       <<8105,8041,921>>, <<8106,8042,921>>, <<8107,8043,921>>,
       <<8108,8044,921>>, <<8109,8045,921>>, <<8110,8046,921>>,
       <<8111,8047,921>>, <<8114,8122,921>>, <<8115,913,921>>,
       <<8116,902,921>>, <<8118,913,834>>, <<8119,913,834,921>>,
       <<8124,913,921>>, <<8130,8138,921>>, <<8131,919,921>>, <<8132,905,921>>,
       <<8134,919,834>>, <<8135,919,834,921>>, <<8140,919,921>>,
       <<8146,921,776,768>>, <<8147,921,776,769>>, <<8150,921,834>>,
       <<8151,921,776,834>>, <<8162,933,776,768>>, <<8163,933,776,769>>,
       <<8164,929,787>>, <<8166,933,834>>, <<8167,933,776,834>>,
       <<8178,8186,921>>, <<8179,937,921>>, <<8180,911,921>>, <<8182,937,834>>,
       <<8183,937,834,921>>, <<8188,937,921>>, <<64256,70,70>>,
       <<64257,70,73>>, <<64258,70,76>>, <<64259,70,70,73>>,
       <<64260,70,70,76>>, <<64261,83,84>>, <<64262,83,84>>,
       <<64275,1348,1350>>, <<64276,1348,1333>>, <<64277,1348,1339>>,
       <<64278,1358,1350>>, <<64279,1348,1341>> >>

\* The case-ignorable code points, as ranges: the characters the rule for
\* a capital sigma skips.
CaseIgnorable ==
    << <<39,39>>, <<46,46>>, <<58,58>>, <<94,94>>, <<96,96>>, <<168,168>>,
       <<173,173>>, <<175,175>>, <<180,180>>, <<183,184>>, <<688,879>>,
       <<884,885>>, <<890,890>>, <<900,901>>, <<903,903>>, <<1155,1161>>,
       <<1369,1369>>, <<1375,1375>>, <<1425,1469>>, <<1471,1471>>,
       <<1473,1474>>, <<1476,1477>>, <<1479,1479>>, <<1524,1524>>,
       <<1536,1541>>, <<1552,1562>>, <<1564,1564>>, <<1600,1600>>,
       <<1611,1631>>, <<1648,1648>>, <<1750,1757>>, <<1759,1768>>,
       <<1770,1773>>, <<1807,1807>>, <<1809,1809>>, <<1840,1866>>,
       <<1958,1968>>, <<2027,2037>>, <<2042,2042>>, <<2045,2045>>,
       <<2070,2093>>, <<2137,2139>>, <<2184,2184>>, <<2192,2193>>,
       <<2200,2207>>, <<2249,2306>>, <<2362,2362>>, <<2364,2364>>,
       <<2369,2376>>, <<2381,2381>>, <<2385,2391>>, <<2402,2403>>,
       <<2417,2417>>, <<2433,2433>>, <<2492,2492>>, <<2497,2500>>,
       <<2509,2509>>, <<2530,2531>>, <<2558,2558>>, <<2561,2562>>,
       <<2620,2620>>, <<2625,2626>>, <<2631,2632>>, <<2635,2637>>,
       <<2641,2641>>, <<2672,2673>>, <<2677,2677>>, <<2689,2690>>,
       <<2748,2748>>, <<2753,2757>>, <<2759,2760>>, <<2765,2765>>,
       <<2786,2787>>, <<2810,2815>>, <<2817,2817>>, <<2876,2876>>,
       <<2879,2879>>, <<2881,2884>>, <<2893,2893>>, <<2901,2902>>,
       <<2914,2915>>, <<2946,2946>>, <<3008,3008>>, <<3021,3021>>,
       <<3072,3072>>, <<3076,3076>>, <<3132,3132>>, <<3134,3136>>,
       <<3142,3144>>, <<3146,3149>>, <<3157,3158>>, <<3170,3171>>,
       <<3201,3201>>, <<3260,3260>>, <<3263,3263>>, <<3270,3270>>,
       <<3276,3277>>, <<3298,3299>>, <<3328,3329>>, <<3387,3388>>,
       <<3393,3396>>, <<3405,3405>>, <<3426,3427>>, <<3457,3457>>,
       <<3530,3530>>, <<3538,3540>>, <<3542,3542>>, <<3633,3633>>,
       <<3636,3642>>, <<3654,3662>>, <<3761,3761>>, <<3764,3772>>,
       <<3782,3782>>, <<3784,3789>>, <<3864,3865>>, <<3893,3893>>,
       <<3895,3895>>, <<3897,3897>>, <<3953,3966>>, <<3968,3972>>,
       <<3974,3975>>, <<3981,3991>>, <<3993,4028>>, <<4038,4038>>,
       <<4141,4144>>, <<4146,4151>>, <<4153,4154>>, <<4157,4158>>,
       <<4184,4185>>, <<4190,4192>>, <<4209,4212>>, <<4226,4226>>,
       <<4229,4230>>, <<4237,4237>>, <<4253,4253>>, <<4348,4348>>,
       <<4957,4959>>, <<5906,5908>>, <<5938,5939>>, <<5970,5971>>,
       <<6002,6003>>, <<6068,6069>>, <<6071,6077>>, <<6086,6086>>,
       <<6089,6099>>, <<6103,6103>>, <<6109,6109>>, <<6155,6159>>,
       <<6211,6211>>, <<6277,6278>>, <<6313,6313>>, <<6432,6434>>,
       <<6439,6440>>, <<6450,6450>>, <<6457,6459>>, <<6679,6680>>,
       <<6683,6683>>, <<6742,6742>>, <<6744,6750>>, <<6752,6752>>,
       <<6754,6754>>, <<6757,6764>>, <<6771,6780>>, <<6783,6783>>,
       <<6823,6823>>, <<6832,6862>>, <<6912,6915>>, <<6964,6964>>,
       <<6966,6970>>, <<6972,6972>>, <<6978,6978>>, <<7019,7027>>,
       <<7040,7041>>, <<7074,7077>>, <<7080,7081>>, <<7083,7085>>,
       <<7142,7142>>, <<7144,7145>>, <<7149,7149>>, <<7151,7153>>,
       <<7212,7219>>, <<7222,7223>>, <<7288,7293>>, <<7376,7378>>,
       <<7380,7392>>, <<7394,7400>>, <<7405,7405>>, <<7412,7412>>,
       <<7416,7417>>, <<7468,7530>>, <<7544,7544>>, <<7579,7679>>,
       <<8125,8125>>, <<8127,8129>>, <<8141,8143>>, <<8157,8159>>,
       <<8173,8175>>, <<8189,8190>>, <<8203,8207>>, <<8216,8217>>,
       <<8228,8228>>, <<8231,8231>>, <<8234,8238>>, <<8288,8292>>,
       <<8294,8303>>, <<8305,8305>>, <<8319,8319>>, <<8336,8348>>,
       <<8400,8432>>, <<11388,11389>>, <<11503,11505>>, <<11631,11631>>,
       <<11647,11647>>, <<11744,11775>>, <<11823,11823>>, <<12293,12293>>,
       <<12330,12333>>, <<12337,12341>>, <<12347,12347>>, <<12441,12446>>,
       <<12540,12542>>, <<40981,40981>>, <<42232,42237>>, <<42508,42508>>,
       <<42607,42610>>, <<42612,42621>>, <<42623,42623>>, <<42652,42655>>,
       <<42736,42737>>, <<42752,42785>>, <<42864,42864>>, <<42888,42890>>,
       <<42994,42996>>, <<43000,43001>>, <<43010,43010>>, <<43014,43014>>,
       <<43019,43019>>, <<43045,43046>>, <<43052,43052>>, <<43204,43205>>,
       <<43232,43249>>, <<43263,43263>>, <<43302,43309>>, <<43335,43345>>,
       <<43392,43394>>, <<43443,43443>>, <<43446,43449>>, <<43452,43453>>,
       <<43471,43471>>, <<43493,43494>>, <<43561,43566>>, <<43569,43570>>,
       <<43573,43574>>, <<43587,43587>>, <<43596,43596>>, <<43632,43632>>,
       <<43644,43644>>, <<43696,43696>>, <<43698,43700>>, <<43703,43704>>,
       <<43710,43711>>, <<43713,43713>>, <<43741,43741>>, <<43756,43757>>,
       <<43763,43764>>, <<43766,43766>>, <<43867,43871>>, <<43881,43883>>,
       <<44005,44005>>, <<44008,44008>>, <<44013,44013>>, <<64286,64286>>,
       <<64434,64450>>, <<65024,65039>>, <<65043,65043>>, <<65056,65071>>,
       <<65106,65106>>, <<65109,65109>>, <<65279,65279>>, <<65287,65287>>,
       <<65294,65294>>, <<65306,65306>>, <<65342,65342>>, <<65344,65344>>,
       <<65392,65392>>, <<65438,65439>>, <<65507,65507>>, <<65529,65531>>,
       <<66045,66045>>, <<66272,66272>>, <<66422,66426>>, <<67456,67461>>,
       <<67463,67504>>, <<67506,67514>>, <<68097,68099>>, <<68101,68102>>,
       <<68108,68111>>, <<68152,68154>>, <<68159,68159>>, <<68325,68326>>,
       <<68900,68903>>, <<69291,69292>>, <<69446,69456>>, <<69506,69509>>,
       <<69633,69633>>, <<69688,69702>>, <<69744,69744>>, <<69747,69748>>,
       <<69759,69761>>, <<69811,69814>>, <<69817,69818>>, <<69821,69821>>,
       <<69826,69826>>, <<69837,69837>>, <<69888,69890>>, <<69927,69931>>,
       <<69933,69940>>, <<70003,70003>>, <<70016,70017>>, <<70070,70078>>,
       <<70089,70092>>, <<70095,70095>>, <<70191,70193>>, <<70196,70196>>,
       <<70198,70199>>, <<70206,70206>>, <<70367,70367>>, <<70371,70378>>,
       <<70400,70401>>, <<70459,70460>>, <<70464,70464>>, <<70502,70508>>,
       <<70512,70516>>, <<70712,70719>>, <<70722,70724>>, <<70726,70726>>,
       <<70750,70750>>, <<70835,70840>>, <<70842,70842>>, <<70847,70848>>,
       <<70850,70851>>, <<71090,71093>>, <<71100,71101>>, <<71103,71104>>,
       <<71132,71133>>, <<71219,71226>>, <<71229,71229>>, <<71231,71232>>,
       <<71339,71339>>, <<71341,71341>>, <<71344,71349>>, <<71351,71351>>,
       <<71453,71455>>, <<71458,71461>>, <<71463,71467>>, <<71727,71735>>,
       <<71737,71738>>, <<71995,71996>>, <<71998,71998>>, <<72003,72003>>,
       <<72148,72151>>, <<72154,72155>>, <<72160,72160>>, <<72193,72202>>,
       <<72243,72248>>, <<72251,72254>>, <<72263,72263>>, <<72273,72278>>,
       <<72281,72283>>, <<72330,72342>>, <<72344,72345>>, <<72752,72758>>,
       <<72760,72765>>, <<72767,72767>>, <<72850,72871>>, <<72874,72880>>,
       <<72882,72883>>, <<72885,72886>>, <<73009,73014>>, <<73018,73018>>,
       <<73020,73021>>, <<73023,73029>>, <<73031,73031>>, <<73104,73105>>,
       <<73109,73109>>, <<73111,73111>>, <<73459,73460>>, <<78896,78904>>,
       <<92912,92916>>, <<92976,92982>>, <<92992,92995>>, <<94031,94031>>,
       <<94095,94111>>, <<94176,94177>>, <<94179,94180>>, <<110576,110579>>,
       <<110581,110587>>, <<110589,110590>>, <<113821,113822>>,
       <<113824,113827>>, <<118528,118573>>, <<118576,118598>>,
       <<119143,119145>>, <<119155,119170>>, <<119173,119179>>,
       <<119210,119213>>, <<119362,119364>>, <<121344,121398>>,
       <<121403,121452>>, <<121461,121461>>, <<121476,121476>>,
       <<121499,121503>>, <<121505,121519>>, <<122880,122886>>,
       <<122888,122904>>, <<122907,122913>>, <<122915,122916>>,
       <<122918,122922>>, <<123184,123197>>, <<123566,123566>>,
       <<123628,123631>>, <<125136,125142>>, <<125252,125259>>,
       <<127995,127999>>, <<917505,917505>>, <<917536,917631>>,
       <<917760,917999>> >>

\* The cased code points that are not case-ignorable, as ranges.
CasedLetters ==
    << <<65,90>>, <<97,122>>, <<170,170>>, <<181,181>>, <<186,186>>,
       <<192,214>>, <<216,246>>, <<248,442>>, <<444,447>>, <<452,659>>,
       <<661,687>>, <<880,883>>, <<886,887>>, <<891,893>>, <<895,895>>,
       <<902,902>>, <<904,906>>, <<908,908>>, <<910,929>>, <<931,1013>>,
       <<1015,1153>>, <<1162,1327>>, <<1329,1366>>, <<1376,1416>>,
       <<4256,4293>>, <<4295,4295>>, <<4301,4301>>, <<4304,4346>>,
       <<4349,4351>>, <<5024,5109>>, <<5112,5117>>, <<7296,7304>>,
       <<7312,7354>>, <<7357,7359>>, <<7424,7467>>, <<7531,7543>>,
       <<7545,7578>>, <<7680,7957>>, <<7960,7965>>, <<7968,8005>>,
       <<8008,8013>>, <<8016,8023>>, <<8025,8025>>, <<8027,8027>>,
       <<8029,8029>>, <<8031,8061>>, <<8064,8116>>, <<8118,8124>>,
       <<8126,8126>>, <<8130,8132>>, <<8134,8140>>, <<8144,8147>>,
       <<8150,8155>>, <<8160,8172>>, <<8178,8180>>, <<8182,8188>>,
       <<8450,8450>>, <<8455,8455>>, <<8458,8467>>, <<8469,8469>>,
       <<8473,8477>>, <<8484,8484>>, <<8486,8486>>, <<8488,8488>>,
       <<8490,8493>>, <<8495,8500>>, <<8505,8505>>, <<8508,8511>>,
       <<8517,8521>>, <<8526,8526>>, <<8544,8575>>, <<8579,8580>>,
       <<9398,9449>>, <<11264,11387>>, <<11390,11492>>, <<11499,11502>>,
       <<11506,11507>>, <<11520,11557>>, <<11559,11559>>, <<11565,11565>>,
       <<42560,42605>>, <<42624,42651>>, <<42786,42863>>, <<42865,42887>>,
       <<42891,42894>>, <<42896,42954>>, <<42960,42961>>, <<42963,42963>>,
       <<42965,42969>>, <<42997,42998>>, <<43002,43002>>, <<43824,43866>>,
       <<43872,43880>>, <<43888,43967>>, <<64256,64262>>, <<64275,64279>>,
       <<65313,65338>>, <<65345,65370>>, <<66560,66639>>, <<66736,66771>>,
       <<66776,66811>>, <<66928,66938>>, <<66940,66954>>, <<66956,66962>>,
       <<66964,66965>>, <<66967,66977>>, <<66979,66993>>, <<66995,67001>>,
       <<67003,67004>>, <<68736,68786>>, <<68800,68850>>, <<71840,71903>>,
       <<93760,93823>>, <<119808,119892>>, <<119894,119964>>,
       <<119966,119967>>, <<119970,119970>>, <<119973,119974>>,
       <<119977,119980>>, <<119982,119993>>, <<119995,119995>>,
       <<119997,120003>>, <<120005,120069>>, <<120071,120074>>,
       <<120077,120084>>, <<120086,120092>>, <<120094,120121>>,
       <<120123,120126>>, <<120128,120132>>, <<120134,120134>>,
       <<120138,120144>>, <<120146,120485>>, <<120488,120512>>,
       <<120514,120538>>, <<120540,120570>>, <<120572,120596>>,
       <<120598,120628>>, <<120630,120654>>, <<120656,120686>>,
       <<120688,120712>>, <<120714,120744>>, <<120746,120770>>,
       <<120772,120779>>, <<122624,122633>>, <<122635,122654>>,
       <<125184,125251>>, <<127280,127305>>, <<127312,127337>>,
       <<127344,127369>> >>

\* Whether code point n lies in one of the ranges.
InRanges(n, ranges) == \E i \in DOMAIN ranges : ranges[i][1] <= n /\ n <= ranges[i][2]

\* Whether code point n is one of those run r maps.
InRun(n, r) == r[1] <= n /\ n <= r[1] + (r[2] - 1) * r[3] /\ (n - r[1]) % r[3] = 0

\* The case mapping of code point n by the tables `runs` and `special`: the
\* code points it maps to, itself where the tables do not have it.
CaseMapped(n, runs, special) ==
    IF \E i \in DOMAIN special : special[i][1] = n
    THEN Tail(special[CHOOSE i \in DOMAIN special : special[i][1] = n])
    ELSE IF \E i \in DOMAIN runs : InRun(n, runs[i])
    THEN <<n + runs[CHOOSE i \in DOMAIN runs : InRun(n, runs[i])][4]>>
    ELSE <<n>>

IsAscii(c) == c \in DOMAIN AsciiOrd

\* [a-z]
IsLower(c) == IsAscii(c) /\ AsciiOrd[c] >= 97 /\ AsciiOrd[c] <= 122

\* [A-Z]
IsUpper(c) == IsAscii(c) /\ AsciiOrd[c] >= 65 /\ AsciiOrd[c] <= 90

\* [A-Za-z]
IsAlpha(c) == IsLower(c) \/ IsUpper(c)

\* Whether code point n is a digit of the block that starts at `zero`.
InBlock(n, zero) == zero <= n /\ n <= zero + 9

\* \d
IsDigit(c) == \E i \in DOMAIN DecimalZeros : InBlock(Ord(c), DecimalZeros[i])

\* The digit that code point n is: its place in its block.
DigitOf(n) == n - DecimalZeros[CHOOSE i \in DOMAIN DecimalZeros : InBlock(n, DecimalZeros[i])]

\* int(c) of a decimal digit
DigitValue(c) == DigitOf(Ord(c))

\* \s, and the separators of str.split() and str.strip()
IsSpace(c) == InRanges(Ord(c), Whitespace)

\* The characters with the code points ns.
Chars(ns) == [i \in 1..Len(ns) |-> Chr(ns[i])]

\* The case mapping of character c of code point n, from the code points the
\* tables give for it: c itself where they map it to itself.
MappedChars(c, n, mapped) == IF mapped = <<n>> THEN <<c>> ELSE Chars(mapped)

\* c.lower() of the character c of code point n
LowerOf(c, n) == MappedChars(c, n, CaseMapped(n, LowerRuns, LowerSpecial))

\* c.lower() of one character
LowerChar(c) == LowerOf(c, Ord(c))

\* c.upper() of the character c of code point n
UpperOf(c, n) == MappedChars(c, n, CaseMapped(n, UpperRuns, UpperSpecial))

\* c.upper() of one character
UpperChar(c) == UpperOf(c, Ord(c))

\* The capital sigma and the two small ones.
CapitalSigma == Chr(931)

SmallSigma == Chr(963)

FinalSigma == Chr(962)

\* The nearest position before i (step -1) or after i (step 1) of s that
\* holds a character that is not case-ignorable; 0 or Len(s) + 1 if none.
RECURSIVE SkipIgnorable(_, _, _)
SkipIgnorable(s, i, step) ==
    IF i + step >= 1 /\ i + step <= Len(s) /\ InRanges(Ord(s[i + step]), CaseIgnorable)
    THEN SkipIgnorable(s, i + step, step)
    ELSE i + step

\* Whether the capital sigma at position i of s ends a word: a cased letter
\* comes before it and none after it, case-ignorable characters skipped.
IsFinalSigma(s, i) ==
    LET before == SkipIgnorable(s, i, -1)
        after == SkipIgnorable(s, i, 1)
    IN  /\ before >= 1
        /\ InRanges(Ord(s[before]), CasedLetters)
        /\ (after > Len(s) \/ ~InRanges(Ord(s[after]), CasedLetters))

\* str.lower(), the characters of s from position i on
RECURSIVE LowerFrom(_, _)
LowerFrom(s, i) ==
    IF i > Len(s) THEN <<>>
    ELSE (IF s[i] = CapitalSigma
          THEN <<IF IsFinalSigma(s, i) THEN FinalSigma ELSE SmallSigma>>
          ELSE LowerChar(s[i]))
         \o LowerFrom(s, i + 1)

\* str.lower()
Lower(s) == LowerFrom(s, 1)

\* str.upper()
RECURSIVE Upper(_)
Upper(s) == IF s = <<>> THEN <<>> ELSE UpperChar(Head(s)) \o Upper(Tail(s))

\* s.replace(c, " ") for every c of `chars` (also re.sub of a character class)
ReplaceWithSpace(s, chars) == [i \in 1..Len(s) |-> IF s[i] \in chars THEN " " ELSE s[i]]

RECURSIVE LStrip(_)
LStrip(s) == IF s # <<>> /\ IsSpace(Head(s)) THEN LStrip(Tail(s)) ELSE s

RECURSIVE RStrip(_)
RStrip(s) ==
    IF s # <<>> /\ IsSpace(s[Len(s)]) THEN RStrip(SubSeq(s, 1, Len(s) - 1)) ELSE s

\* str.strip()
Strip(s) == RStrip(LStrip(s))

\* re.search(r"\s", s)
HasSpace(s) == \E i \in 1..Len(s) : IsSpace(s[i])

\* str.split(): `cur` is the token being read, `out` the tokens read so far
RECURSIVE SplitFrom(_, _, _)
SplitFrom(s, cur, out) ==
    IF s = <<>>
    THEN (IF cur = <<>> THEN out ELSE Append(out, cur))
    ELSE IF IsSpace(Head(s))
         THEN SplitFrom(Tail(s), <<>>, IF cur = <<>> THEN out ELSE Append(out, cur))
         ELSE SplitFrom(Tail(s), Append(cur, Head(s)), out)

Split(s) == SplitFrom(s, <<>>, <<>>)

\* str.split(sep) for a one-character sep: empty pieces are kept
RECURSIVE SplitOnFrom(_, _, _, _)
SplitOnFrom(s, sep, cur, out) ==
    IF s = <<>>
    THEN Append(out, cur)
    ELSE IF Head(s) = sep
         THEN SplitOnFrom(Tail(s), sep, <<>>, Append(out, cur))
         ELSE SplitOnFrom(Tail(s), sep, Append(cur, Head(s)), out)

SplitOn(s, sep) == SplitOnFrom(s, sep, <<>>, <<>>)

\* int(s) for a non-empty run of decimal digits
RECURSIVE IntOf(_)
IntOf(s) ==
    IF s = <<>> THEN 0
    ELSE 10 * IntOf(SubSeq(s, 1, Len(s) - 1)) + DigitValue(s[Len(s)])

\* d[k] = v on a dict
DictSet(d, k, v) == (k :> v) @@ d

\* d.get(k, default)
DictGet(d, k, default) == IF k \in DOMAIN d THEN d[k] ELSE default

Max(a, b) == IF a >= b THEN a ELSE b

Min(a, b) == IF a <= b THEN a ELSE b

----------------------------------------------------------------------------
(* Parsers of the answers.                                                 *)

\* normalize_choice: (s or "").strip().lower()
normalize_choice(s) == Lower(Strip(s))

RECURSIVE SkipSpaces(_, _)
SkipSpaces(p, i) == IF i <= Len(p) /\ IsSpace(p[i]) THEN SkipSpaces(p, i + 1) ELSE i

RECURSIVE SkipDigits(_, _)
SkipDigits(p, i) == IF i <= Len(p) /\ IsDigit(p[i]) THEN SkipDigits(p, i + 1) ELSE i

\* The characters the pair pattern accepts between the letter and the number.
PairJoiners == {"-", "=", ":"}

\* The pair pattern ([A-Za-z])\s*[-=:]?\s*(\d+) tried at position i of p:
\* whether it matches there, its two groups, and the position after the match.
\* The pattern does not match at position i.
NoPair(i) == [ok |-> FALSE, left |-> <<>>, right |-> 0, end |-> i]

\* [-=:]? at position j of p: the position after it
SkipJoiner(p, j) == IF j <= Len(p) /\ p[j] \in PairJoiners THEN j + 1 ELSE j

\* (\d+) read from position j3 to before j4, after the letter at position i
PairOfDigits(p, i, j3, j4) ==
    IF j4 > j3
    THEN [ok |-> TRUE, left |-> LowerChar(p[i]),
          right |-> IntOf(SubSeq(p, j3, j4 - 1)), end |-> j4]
    ELSE NoPair(i)

\* \s*(\d+) at position j2 of p, after the letter at position i
PairFromDigits(p, i, j3) == PairOfDigits(p, i, j3, SkipDigits(p, j3))

MatchPairAt(p, i) ==
    IF ~(i <= Len(p) /\ IsAlpha(p[i]))
    THEN NoPair(i)
    ELSE PairFromDigits(p, i, SkipSpaces(p, SkipJoiner(p, SkipSpaces(p, i + 1))))

\* $ after position j of p: the end of p, or its last character if that is
\* a newline
AtEnd(p, j) == j = Len(p) + 1 \/ (j = Len(p) /\ Ord(p[j]) = 10)

\* The match m of the pattern at the start of p, if it ends where $ matches.
WholeOnly(p, m) == IF m.ok /\ AtEnd(p, m.end) THEN m ELSE [m EXCEPT !.ok = FALSE]

\* re.match(r"^([A-Za-z])\s*[-=:]?\s*(\d+)$", p): the whole token is one pair
MatchWholePair(p) == WholeOnly(p, MatchPairAt(p, 1))

\* the re.finditer loop over a token that is not one pair: every pair found,
\* left to right, later ones overwriting earlier ones
RECURSIVE FindPairs(_, _, _)

\* One step of the loop, m the attempt at position i: a match is stored and
\* the search goes on after it, else at the next position.
FindPairsAfter(p, i, res, m) ==
    IF m.ok THEN FindPairs(p, m.end, DictSet(res, m.left, m.right))
            ELSE FindPairs(p, i + 1, res)

FindPairs(p, i, res) ==
    IF i > Len(p) THEN res ELSE FindPairsAfter(p, i, res, MatchPairAt(p, i))

\* The separators parse_matching_input replaces by a space before splitting.
MatchingSeparators == {";", ",", ":"}

\* The body of the loop over the tokens, m the match of token p as a whole:
\* its pair is stored, or else every pair found inside the token.
PairsOfPart(p, m, res) ==
    IF m.ok THEN DictSet(res, m.left, m.right) ELSE FindPairs(p, 1, res)

RECURSIVE ParseMatchingParts(_, _)
ParseMatchingParts(parts, res) ==
    IF parts = <<>> THEN res
    ELSE ParseMatchingParts(Tail(parts),
                            PairsOfPart(Head(parts), MatchWholePair(Head(parts)), res))

parse_matching_input(s) ==
    IF s = <<>> THEN <<>>
    ELSE ParseMatchingParts(Split(Strip(ReplaceWithSpace(s, MatchingSeparators))), <<>>)

TfTokens == { <<"T">>, <<"F">>, <<"T","R","U","E">>, <<"F","A","L","S","E">> }

TfOfToken(p) == IF p \in { <<"T">>, <<"T","R","U","E">> } THEN <<"T">> ELSE <<"F">>

\* Mutant of TfCase: the input taken as typed.
TfCaseKept(s) == s

\* The case conversion parse_tf_list_input applies first: s.upper()
TfCase(s) == Upper(s)

parse_tf_list_input(s) ==
    IF s = <<>> THEN <<>>
    ELSE LET s2 == ReplaceWithSpace(TfCase(s), {",", ".", ";"})
         IN  IF HasSpace(s2)
             THEN LET parts == SelectSeq(Split(s2), LAMBDA p : p \in TfTokens)
                  IN  [i \in 1..Len(parts) |-> TfOfToken(parts[i])]
             ELSE LET compact == SelectSeq(s2, LAMBDA c : c \in {"T", "F"})
                  IN  [i \in 1..Len(compact) |-> <<compact[i]>>]

\* [p.strip().lower() for p in pieces if p.strip()]
StripLowerNonEmpty(pieces) ==
    LET kept == SelectSeq(pieces, LAMBDA p : Strip(p) # <<>>)
    IN  [i \in 1..Len(kept) |-> Lower(Strip(kept[i]))]

parse_ordering_input(s) ==
    IF s = <<>> THEN <<>>
    ELSE LET s2 == Strip(s)
             parts == IF "," \in Range(s2) THEN StripLowerNonEmpty(SplitOn(s2, ","))
                      ELSE IF HasSpace(s2) THEN StripLowerNonEmpty(Split(s2))
                      ELSE [i \in 1..Len(Lower(s2)) |-> <<Lower(s2)[i]>>]
         IN  SelectSeq(parts, LAMBDA p : Len(p) = 1 /\ IsLower(p[1]))

----------------------------------------------------------------------------
(* Grading: question_max_points and grade_answers.                         *)
(*                                                                         *)
(* A question is a record with the keys of its JSON object: id, type,     *)
(* text and, when present, points, answer, items, options, keywords.      *)
(*   single   answer: a str                                               *)
(*   matching answer: the JSON object as its sequence of <<key, value>>   *)
(*            pairs (a dict keeps insertion order)                        *)
(*   tf_list  answer: a list of str, items: a list                        *)
(*   ordering answer: a list of str, options: a list                      *)
(*   free_text* keywords: a list of str                                   *)

\* q.get(k, default) on a question
QGet(q, k, default) == IF k \in DOMAIN q THEN q[k] ELSE default

\* Mutant of StartsWithFreeText: the type compared for equality, so that the
\* variants of free_text fall through to the unrecognized types.
IsExactlyFreeText(t) == t = "free_text"

\* t.startswith("free_text")
StartsWithFreeText(t) == Len(t) >= 9 /\ SubSeq(t, 1, 9) = "free_text"

question_max_points(q) ==
    IF "points" \in DOMAIN q THEN q.points
    ELSE IF q.type = "single" THEN 1
    ELSE IF q.type = "matching" THEN Len(QGet(q, "answer", <<>>))
    ELSE IF q.type = "tf_list" THEN Len(QGet(q, "items", <<>>))
    ELSE IF q.type = "ordering" THEN Len(QGet(q, "options", <<>>))
    ELSE IF StartsWithFreeText(q.type) THEN QGet(q, "points", 2)
    ELSE 1

(* Scores are Python floats: pts / n and matched * (pts / n) are each the    *)
(* double nearest to the exact result (ties to the even mantissa), and      *)
(* round(score, 2) rounds the exact value of that double.  A double is      *)
(* kept as the bits of its mantissa, most significant first, and the        *)
(* exponent of the last bit: [bits |-> <<1, 0, 1>>, exp |-> -3] is 5/8.     *)

\* The bits of mantissas.
MantissaBits == 53

\* The bits of a natural number, without leading zeros.
RECURSIVE BitsOf(_)
BitsOf(n) == IF n = 0 THEN <<>> ELSE Append(BitsOf(n \div 2), n % 2)

\* The bits without their leading zeros.
StripZeros(bits) ==
    IF \A i \in DOMAIN bits : bits[i] = 0 THEN <<>>
    ELSE SubSeq(bits, CHOOSE i \in DOMAIN bits :
                          bits[i] = 1 /\ \A j \in 1..(i - 1) : bits[j] = 0,
                Len(bits))

Zeros(n) == [i \in 1..n |-> 0]

\* The bits of bits * k, for a number k below 2^30: the bits from position i
\* down are still to be multiplied, `carry` comes from the ones after them
\* and `out` are the bits of the product found so far.
RECURSIVE MulFrom(_, _, _, _, _)
MulFrom(bits, k, i, carry, out) ==
    IF i = 0 THEN BitsOf(carry) \o out
    ELSE MulFrom(bits, k, i - 1, (bits[i] * k + carry) \div 2,
                 <<(bits[i] * k + carry) % 2>> \o out)

MulBits(bits, k) == MulFrom(bits, k, Len(bits), 0, <<>>)

\* The position of the last 1 of bits that are not all zeros.
LastOne(bits) == CHOOSE i \in DOMAIN bits : bits[i] = 1 /\ \A j \in (i + 1)..Len(bits) : bits[j] = 0

\* bits + 1
IncBits(bits) ==
    IF \A i \in DOMAIN bits : bits[i] = 1 THEN <<1>> \o Zeros(Len(bits))
    ELSE LET last == CHOOSE i \in DOMAIN bits :
                         bits[i] = 0 /\ \A j \in (i + 1)..Len(bits) : bits[j] = 1
         IN  [i \in DOMAIN bits |-> IF i < last THEN bits[i] ELSE IF i = last THEN 1 ELSE 0]

\* -1, 0 or 1 as the number of bits x is below, equal to or above that of y
CmpBits(x, y) ==
    LET a == StripZeros(x)
        b == StripZeros(y)
    IN  IF Len(a) # Len(b) THEN (IF Len(a) < Len(b) THEN -1 ELSE 1)
        ELSE IF a = b THEN 0
        ELSE LET first == CHOOSE i \in DOMAIN a :
                              a[i] # b[i] /\ \A j \in 1..(i - 1) : a[j] = b[j]
             IN  IF a[first] < b[first] THEN -1 ELSE 1

\* The double nearest to bits * 2^exp (+ a nonzero rest below the last bit
\* if `sticky`), bits without leading zeros: the mantissa is cut to
\* MantissaBits bits and rounded to nearest, a tie to the even one.
RoundToDouble(bits, exp, sticky) ==
    IF Len(bits) <= MantissaBits THEN [bits |-> bits, exp |-> exp]
    ELSE LET kept == SubSeq(bits, 1, MantissaBits)
             guard == bits[MantissaBits + 1]
             rest == sticky \/ \E i \in (MantissaBits + 2)..Len(bits) : bits[i] = 1
             e == exp + (Len(bits) - MantissaBits)
             up == guard = 1 /\ (rest \/ kept[MantissaBits] = 1)
         IN  IF ~up THEN [bits |-> kept, exp |-> e]
             ELSE IF Len(IncBits(kept)) > MantissaBits
             THEN [bits |-> SubSeq(IncBits(kept), 1, MantissaBits), exp |-> e + 1]
             ELSE [bits |-> IncBits(kept), exp |-> e]

\* The long division behind b / c: `bits` are the bits of the quotient so
\* far, the last one of exponent exp, and r the remainder; it stops with one
\* bit more than a mantissa holds.
RECURSIVE DivideFrom(_, _, _, _)
DivideFrom(r, c, bits, exp) ==
    IF Len(bits) > MantissaBits \/ r = 0
    THEN RoundToDouble(bits, exp, r # 0)
    ELSE DivideFrom(IF 2 * r >= c THEN 2 * r - c ELSE 2 * r, c,
                    StripZeros(Append(bits, IF 2 * r >= c THEN 1 ELSE 0)), exp - 1)

\* b / c as a double, for b >= 0 and c > 0
FloatDivide(b, c) == DivideFrom(b % c, c, BitsOf(b \div c), 0)

\* a * f as a double, for a number a >= 0 and a double f
FloatTimes(a, f) == RoundToDouble(StripZeros(MulBits(f.bits, a)), f.exp, FALSE)

\* The number the bits write.
RECURSIVE NatOf(_)
NatOf(bits) ==
    IF bits = <<>> THEN 0
    ELSE 2 * NatOf(SubSeq(bits, 1, Len(bits) - 1)) + bits[Len(bits)]

\* The double 0.0
FloatZero == [bits |-> <<>>, exp |-> 0]

\* The bits of the double f written down to the exponent e <= f.exp.
AlignTo(f, e) == f.bits \o Zeros(f.exp - e)

\* The bits with leading zeros up to n bits.
PadTo(bits, n) == Zeros(n - Len(bits)) \o bits

\* The bits of x + y, for x and y of the same length: the bits from position
\* i down are still to be added.
RECURSIVE AddFrom(_, _, _, _, _)
AddFrom(x, y, i, carry, out) ==
    IF i = 0 THEN <<carry>> \o out
    ELSE AddFrom(x, y, i - 1, (x[i] + y[i] + carry) \div 2,
                 <<(x[i] + y[i] + carry) % 2>> \o out)

AddBits(x, y, n) == AddFrom(PadTo(x, n), PadTo(y, n), n, 0, <<>>)

\* f + g of two doubles whose last bits are brought to the exponent e
FloatPlusAt(f, g, e) ==
    RoundToDouble(StripZeros(AddBits(AlignTo(f, e), AlignTo(g, e),
                                     Max(Len(f.bits) + f.exp, Len(g.bits) + g.exp) - e)),
                  e, FALSE)

\* f + g as a double, for doubles f, g >= 0
FloatPlus(f, g) ==
    IF f.bits = <<>> THEN g
    ELSE IF g.bits = <<>> THEN f
    ELSE FloatPlusAt(f, g, Min(f.exp, g.exp))

\* The double f with a mantissa that ends in a 1: two doubles are the same
\* number when these are equal.
Canonical(f) ==
    IF f.bits = <<>> THEN FloatZero
    ELSE [bits |-> SubSeq(f.bits, 1, LastOne(f.bits)),
          exp |-> f.exp + (Len(f.bits) - LastOne(f.bits))]

\* The double round(x, 2) returns for an x that rounds to k hundredths: the
\* one nearest to k / 100
DoubleOf(k) == FloatDivide(k, 100)

\* lo + frac * 2^-Len(frac), rounded to the nearest number, a tie to the even one
RoundHalfEven(lo, frac) ==
    IF frac # <<>> /\ frac[1] = 1
       /\ (lo % 2 = 1 \/ \E i \in 2..Len(frac) : frac[i] = 1)
    THEN lo + 1 ELSE lo

\* The number whose bits are m, the last one of exponent exp < 0, rounded
\* to the nearest number.
RoundShifted(m, exp) ==
    RoundHalfEven(NatOf(SubSeq(m, 1, Len(m) + exp)),
                  SubSeq(PadTo(m, -exp), Max(Len(m), -exp) + exp + 1, Max(Len(m), -exp)))

\* round(f, 2) of a double f >= 0, in hundredths: the exact value of f is
\* rounded, half a hundredth to the even one.
HundredthsOf(f) ==
    IF f.exp >= 0 THEN NatOf(MulBits(f.bits, 100) \o Zeros(f.exp))
    ELSE RoundShifted(StripZeros(MulBits(f.bits, 100)), f.exp)

\* -1, 0 or 1 as the double f is below, equal to or above num / den
CmpToFraction(f, num, den) ==
    IF f.exp < 0
    THEN CmpBits(MulBits(f.bits, den), BitsOf(num) \o Zeros(-f.exp))
    ELSE CmpBits(MulBits(f.bits, den) \o Zeros(f.exp), BitsOf(num))

\* round(a * (b / c), 2) in hundredths, for a, b >= 0 and c > 0 (line 363 on
\* the score of lines 311, 324, 336 and 351).  The double a * (b / c) is off
\* the exact a * b / c by less than 2^-51 of it, so it rounds like the exact
\* value unless that lies halfway between two hundredths; there the side
\* the double falls on decides, and a double that is exactly halfway goes to
\* the even hundredth.
Round2(a, b, c) ==
    LET x == 100 * a * b
        lo == x \div c
        r == x % c
    IN  IF 2 * r < c THEN lo
        ELSE IF 2 * r > c THEN lo + 1
        ELSE LET side == CmpToFraction(FloatTimes(a, FloatDivide(b, c)), a * b, c)
             IN  IF side < 0 THEN lo
                 ELSE IF side > 0 THEN lo + 1
                 ELSE IF lo % 2 = 0 THEN lo ELSE lo + 1

\* Mutant of Divisor: the length itself, without the floor of 1.
DivisorUnguarded(n) == n

\* The divisor of the partial-credit rules: max(1, len(correct))
Divisor(n) == Max(1, n)

\* Mutant of PartialScore: every match worth the full pts.
PartialScoreNoDivide(matched, pts, n) ==
    [raised |-> FALSE, score |-> 100 * matched * pts]

\* round(matched * (pts / max(1, n)), 2); the division raises
\* ZeroDivisionError on a zero divisor
PartialScore(matched, pts, n) ==
    IF Divisor(n) = 0
    THEN [raised |-> TRUE, score |-> 0]
    ELSE [raised |-> FALSE, score |-> Round2(matched, pts, Divisor(n))]

\* {k.lower(): int(v) for k, v in answer.items()}
RECURSIVE CorrectMap(_, _)
CorrectMap(pairs, res) ==
    IF pairs = <<>> THEN res
    ELSE CorrectMap(Tail(pairs), DictSet(res, Lower(Head(pairs)[1]), Head(pairs)[2]))

\* The loop of the matching rule: the keys of correct_map the student maps to
\* the same number (s_map.get(left_key) == corr)
MatchedPairs(correct_map, s_map) ==
    Cardinality({k \in DOMAIN correct_map :
                    k \in DOMAIN s_map /\ s_map[k] = correct_map[k]})

\* Mutant of PositionMatches: the expected value looked for anywhere in the
\* student's sequence.
PositionMatchesAnywhere(correct, parts, i) ==
    \E j \in 1..Len(parts) : parts[j] = correct[i]

\* The test of one position in the tf_list and ordering loops:
\* i < len(parts) and parts[i] == exp  (positions from 1 here)
PositionMatches(correct, parts, i) == i <= Len(parts) /\ parts[i] = correct[i]

\* for i, exp in enumerate(correct): ... matched += 1
RECURSIVE MatchedFrom(_, _, _)
MatchedFrom(correct, parts, i) ==
    IF i > Len(correct) THEN 0
    ELSE (IF PositionMatches(correct, parts, i) THEN 1 ELSE 0)
         + MatchedFrom(correct, parts, i + 1)

MatchedPositions(correct, parts) == MatchedFrom(correct, parts, 1)

\* kw in low
IsSubstring(kw, low) ==
    \E i \in 1..(Len(low) - Len(kw) + 1) : SubSeq(low, i, i + Len(kw) - 1) = kw

\* the keywords of a free-text question, lowercased; [] when absent or empty
KeywordsOf(q) ==
    LET kws == QGet(q, "keywords", <<>>)
    IN  [i \in 1..Len(kws) |-> Lower(kws[i])]

\* for kw in keywords: if kw in low: found += 1
KeywordsFound(keywords, low) ==
    Cardinality({i \in 1..Len(keywords) : IsSubstring(keywords[i], low)})

\* round(min(pts, pts * (found / total)), 2) for total > 0
KeywordScore(pts, found, total) ==
    IF pts * found > pts * total THEN 100 * pts ELSE Round2(pts, found, total)

\* One pass of the loop body of grade_answers for question q: whether it
\* raised, round(score, 2) in hundredths (what per_q_scores stores, and what
\* the scored entries of `details` store), the entry of `details`, and whether
\* the question sets manual_needed.
GradeQuestion(q, answers) ==
    LET pts == question_max_points(q)
        student_ans == DictGet(answers, q.id, <<>>)
        qtype == q.type
    IN  IF qtype = "single" THEN
            LET correct == normalize_choice(QGet(q, "answer", <<>>))
                got == normalize_choice(student_ans)
                score == IF got = correct THEN 100 * pts ELSE 0
            IN  [raised |-> FALSE, score |-> score, manual |-> FALSE,
                 detail |-> [type |-> "single", student |-> got, correct |-> correct,
                             score |-> score]]
        ELSE IF qtype = "matching" THEN
            LET correct_map == CorrectMap(QGet(q, "answer", <<>>), <<>>)
                s_map == parse_matching_input(student_ans)
                matched == MatchedPairs(correct_map, s_map)
                total == Cardinality(DOMAIN correct_map)
                ps == PartialScore(matched, pts, total)
            IN  [raised |-> ps.raised, score |-> ps.score, manual |-> FALSE,
                 detail |-> [type |-> "matching", student_map |-> s_map,
                             correct_map |-> correct_map, matched_pairs |-> matched,
                             total_pairs |-> total, score |-> ps.score]]
        ELSE IF qtype = "tf_list" THEN
            LET answer == QGet(q, "answer", <<>>)
                correct == [i \in 1..Len(answer) |-> Upper(answer[i])]
                parts == parse_tf_list_input(student_ans)
                matched == MatchedPositions(correct, parts)
                ps == PartialScore(matched, pts, Len(correct))
            IN  [raised |-> ps.raised, score |-> ps.score, manual |-> FALSE,
                 detail |-> [type |-> "tf_list", student |-> parts, correct |-> correct,
                             matched |-> matched, total |-> Len(correct),
                             score |-> ps.score]]
        ELSE IF qtype = "ordering" THEN
            LET answer == QGet(q, "answer", <<>>)
                correct == [i \in 1..Len(answer) |-> Lower(answer[i])]
                parts == parse_ordering_input(student_ans)
                matched == MatchedPositions(correct, parts)
                ps == PartialScore(matched, pts, Len(correct))
            IN  [raised |-> ps.raised, score |-> ps.score, manual |-> FALSE,
                 detail |-> [type |-> "ordering", student |-> parts, correct |-> correct,
                             matched |-> matched, total |-> Len(correct),
                             score |-> ps.score]]
        ELSE IF StartsWithFreeText(qtype) THEN
            LET keywords == KeywordsOf(q)
                counted == Strip(student_ans) # <<>> /\ keywords # <<>>
                found == IF counted THEN KeywordsFound(keywords, Lower(student_ans)) ELSE 0
                score == IF counted THEN KeywordScore(pts, found, Len(keywords)) ELSE 0
            IN  [raised |-> FALSE, score |-> score, manual |-> TRUE,
                 detail |-> [type |-> qtype, student |-> student_ans,
                             keywords_found |-> found, keywords_total |-> Len(keywords),
                             auto_score |-> score]]
        ELSE
            [raised |-> FALSE, score |-> 0, manual |-> FALSE,
             detail |-> [type |-> qtype, student |-> student_ans, score |-> 0]]

\* The accumulators of grade_answers before the loop.
GradeStart ==
    [raised |-> FALSE, total |-> FloatZero, max_total |-> 0, auto_score |-> FloatZero,
     manual_needed |-> FALSE, per_q_scores |-> <<>>, details |-> <<>>]

\* Mutant of Accumulate: the keyword score of a free-text question is left
\* out of auto_score.
AccumulateAutoSkipsFreeText(acc, q, g) ==
    IF g.raised THEN [acc EXCEPT !.raised = TRUE]
    ELSE [raised |-> FALSE,
          total |-> FloatPlus(acc.total, DoubleOf(g.score)),
          max_total |-> acc.max_total + 100 * question_max_points(q),
          auto_score |-> IF g.manual THEN acc.auto_score
                         ELSE FloatPlus(acc.auto_score, DoubleOf(g.score)),
          manual_needed |-> acc.manual_needed \/ g.manual,
          per_q_scores |-> DictSet(acc.per_q_scores, q.id, g.score),
          details |-> DictSet(acc.details, q.id, g.detail)]

\* The accumulation at the end of the loop body, for the outcome g of
\* question q: max_total, per_q_scores, auto_score, total, manual_needed,
\* details.  total and auto_score are doubles and += adds the double the
\* rounded score is; max_total adds whole points, which doubles hold exactly.
Accumulate(acc, q, g) ==
    IF g.raised THEN [acc EXCEPT !.raised = TRUE]
    ELSE [raised |-> FALSE,
          total |-> FloatPlus(acc.total, DoubleOf(g.score)),
          max_total |-> acc.max_total + 100 * question_max_points(q),
          auto_score |-> FloatPlus(acc.auto_score, DoubleOf(g.score)),
          manual_needed |-> acc.manual_needed \/ g.manual,
          per_q_scores |-> DictSet(acc.per_q_scores, q.id, g.score),
          details |-> DictSet(acc.details, q.id, g.detail)]

\* The loop body of grade_answers: grade q and accumulate.
GradeStep(acc, q, answers) == Accumulate(acc, q, GradeQuestion(q, answers))

RECURSIVE GradeLoop(_, _, _)
GradeLoop(acc, questions, answers) ==
    IF questions = <<>> \/ acc.raised THEN acc
    ELSE GradeLoop(GradeStep(acc, Head(questions), answers), Tail(questions), answers)

\* The dictionary grade_answers returns, from its accumulators: round(total, 2)
\* and round(auto_score, 2) in hundredths.
GradeReturn(acc) ==
    [raised |-> acc.raised,
     score |-> HundredthsOf(acc.total),
     max_score |-> acc.max_total,
     auto_score |-> HundredthsOf(acc.auto_score),
     manual_needed |-> acc.manual_needed,
     per_q_scores |-> acc.per_q_scores,
     details |-> acc.details]

\* grade_answers(test, answers): `raised` tells that an exception left the
\* function instead of the dictionary; scores are in hundredths of a point.
grade_answers(test, answers) ==
    GradeReturn(GradeLoop(GradeStart, test.questions, answers))

----------------------------------------------------------------------------
(* The per-question breakdown finish_test builds from the grading result.  *)
(* A line of the report is a record: `line` names the f-string and the     *)
(* other fields are the values the f-string interpolates, under the names  *)
(* the source gives them.                                                  *)

\* ' '.join(parts)
RECURSIVE JoinSpace(_)
JoinSpace(parts) ==
    IF parts = <<>> THEN <<>>
    ELSE IF Len(parts) = 1 THEN parts[1]
    ELSE parts[1] \o <<" ">> \o JoinSpace(Tail(parts))

\* The literal shown in place of an empty answer: the Russian word for
\* "empty", in parentheses.
EmptyShown == <<"(", "U+043F", "U+0443", "U+0441", "U+0442", "U+043E", "U+0439", ")">>

\* ' '.join(x) if x else EmptyShown
JoinOrEmpty(parts) == IF parts = <<>> THEN EmptyShown ELSE JoinSpace(parts)

\* The keys of details[qid] the branch of finish_test for this type reads
\* with info[...]: a missing one raises KeyError.
KeysRead(qtype, info) ==
    IF qtype = "single" THEN {"student", "correct"}
    ELSE IF qtype = "matching"
        THEN {"matched_pairs", "total_pairs", "score", "student_map"}
    ELSE IF qtype = "tf_list" THEN {"matched", "total", "score", "student"}
    ELSE IF qtype = "ordering" THEN {"matched", "total", "score", "correct", "student"}
    ELSE IF StartsWithFreeText(qtype) /\ DictGet(info, "keywords_total", 0) > 0
        THEN {"keywords_found", "keywords_total", "auto_score"}
    ELSE {}

\* The lines finish_test appends for question q.  `score` is
\* result["per_q_scores"].get(qid, 0) and `info` is details[qid].
ReportLines(q, answers, result) ==
    LET qid == q.id
        qtype == q.type
        pts == question_max_points(q)
        score == DictGet(result.per_q_scores, qid, 0)
        info == result.details[qid]
        head == [line |-> "Q", qtext |-> q.text]
    IN  IF qtype = "single" THEN
            << head,
               [line |-> "single", student |-> info.student, correct |-> info.correct,
                ok |-> (info.student = info.correct),
                score |-> 100 * (score \div 100), pts |-> pts] >>
        ELSE IF qtype = "matching" THEN
            << head,
               [line |-> "matched_pairs", matched_pairs |-> info.matched_pairs,
                total_pairs |-> info.total_pairs, score |-> info.score, pts |-> pts],
               [line |-> "student_map", student_map |-> info.student_map] >>
        ELSE IF qtype = "tf_list" THEN
            << head,
               [line |-> "matched", matched |-> info.matched, total |-> info.total,
                score |-> info.score, pts |-> pts],
               [line |-> "student", student |-> JoinOrEmpty(info.student)] >>
        ELSE IF qtype = "ordering" THEN
            << head,
               [line |-> "matched", matched |-> info.matched, total |-> info.total,
                score |-> info.score, pts |-> pts],
               [line |-> "correct", correct |-> JoinSpace(info.correct)],
               [line |-> "student", student |-> JoinOrEmpty(info.student)] >>
        ELSE IF StartsWithFreeText(qtype) THEN
            << head,
               IF DictGet(info, "keywords_total", 0) > 0
               THEN [line |-> "keywords", keywords_found |-> info.keywords_found,
                     keywords_total |-> info.keywords_total,
                     auto_score |-> info.auto_score, pts |-> pts]
               ELSE [line |-> "manual", auto_score |-> 0, pts |-> pts],
               [line |-> "student", student |-> DictGet(info, "student", EmptyShown)] >>
        ELSE
            << head,
               [line |-> "answer", answer |-> DictGet(answers, qid, <<>>)] >>

\* The loop of finish_test over test["questions"]: the lines of every
\* question, by position, until a KeyError stops it.
RECURSIVE ReportLoop(_, _, _, _)
ReportLoop(questions, answers, result, done) ==
    IF questions = <<>> THEN [raised |-> FALSE, questions |-> done]
    ELSE LET q == Head(questions)
         IN  IF ~(KeysRead(q.type, result.details[q.id]) \subseteq
                    DOMAIN result.details[q.id])
             THEN [raised |-> TRUE, questions |-> done]
             ELSE ReportLoop(Tail(questions), answers, result,
                             Append(done, ReportLines(q, answers, result)))

\* What finish_test holds after its loop: the result and the lines.
ReportResult(result, report) ==
    [raised |-> report.raised, result |-> result, report |-> report.questions]

\* The breakdown of a graded test, unless grading itself raised.
ReportOf(test, answers, result) ==
    IF result.raised
    THEN [raised |-> TRUE, result |-> result, report |-> <<>>]
    ELSE ReportResult(result, ReportLoop(test.questions, answers, result, <<>>))

\* Lines 539-592 of finish_test: grade, then build the breakdown.
GradeAndReport(test, answers) == ReportOf(test, answers, grade_answers(test, answers))

----------------------------------------------------------------------------
(* State.                                                                  *)
(*   user_states   the in-memory sessions: chat id -> session dict         *)
(*   dicts         the session dicts alive, by identity: user_states and   *)
(*                 the local `state` of a running handler refer to a dict, *)
(*                 and a dict lives on while a handler holds it            *)
(*   finished      per chat, how many times finish_test graded a session   *)
(*   last_result   per chat, what the last finish_test computed            *)
(*   workers       the handlers on the bot's worker threads: per thread    *)
(*                 the update, the position and the locals                 *)
(*   delivered     how many updates the bot has received                   *)
(*   gtest, ganswers, gout   a test, a raw answer map and what             *)
(*                 grade_answers and the report make of them               *)
(*   pkind, psrc, pform, pin, pout   a parser, the value and the notation  *)
(*                 an input was written from, the input, and its parse     *)

VARIABLES user_states, dicts, finished, last_result,
          workers, delivered,
          gtest, ganswers, gout,
          pkind, psrc, pform, pin, pout

vars == <<user_states, dicts, finished, last_result, workers, delivered,
          gtest, ganswers, gout, pkind, psrc, pform, pin, pout>>

session_vars == <<user_states, dicts, finished, last_result>>

grade_vars == <<gtest, ganswers, gout>>

parse_vars == <<pkind, psrc, pform, pin, pout>>

worker_vars == <<workers, delivered>>

\* "Not computed yet".
None == [none |-> TRUE]

----------------------------------------------------------------------------
(* The sessions: start_test_for_user, callback_query_handler,              *)
(* handle_text_message, cmd_start and finish_test.                         *)
(*                                                                         *)
(* A session is the dict start_test_for_user stores, with the keys the     *)
(* handlers read or write: test_id, stage, index, answers and, once        *)
(* given, student_name and group.  state["test"] is TESTS[test_id]; the    *)
(* start time, the attempt number and the Telegram user are never read by  *)
(* a handler and are left out.                                             *)
(*                                                                         *)
(* bot = telebot.TeleBot(TOKEN) runs the handlers on a pool of worker      *)
(* threads, and nothing in the program locks user_states.  A handler is    *)
(* cut into one step per statement that reads or writes user_states or a   *)
(* session dict, or that calls the bot API with an outcome that changes    *)
(* what the handler does next; the steps of the running handlers           *)
(* interleave in any order.  A handler keeps the dict it got from          *)
(* user_states: it reads and writes that dict also after the entry of the  *)
(* chat was replaced or deleted.                                           *)

\* Chats that talk to the bot.
NumChats == 1

Chats == 1..NumChats

\* The updates the bot receives in a run.
MaxUpdates == 4

\* The threads of the bot's worker pool.
NumWorkers == 2

Workers == 1..NumWorkers

\* The tests load_tests found in tests/.
TESTS ==
    [t1 |-> [id |-> "t1", title |-> "one",
             questions |->
                << [id |-> "q1", type |-> "single", text |-> "t",
                    options |-> <<"o", "o">>, answer |-> <<"a">>],
                   [id |-> "q2", type |-> "tf_list", text |-> "t",
                    items |-> <<"i", "i">>, answer |-> << <<"T">>, <<"F">> >>] >>],
     t2 |-> [id |-> "t2", title |-> "two",
             questions |->
                << [id |-> "q1", type |-> "single", text |-> "t",
                    options |-> <<"o", "o">>, answer |-> <<"b">>] >>],
     t3 |-> [id |-> "t3", title |-> "three", questions |-> <<>>]]

\* The test ids a "take::<id>" button may carry; "gone" is a test no longer loaded.
TakeIds == {"t1", "t2", "t3", "gone"}

\* The data of the other buttons pressed, and the texts sent.
ButtonData == { <<"a">>, <<"b">>, <<"x">> }

Texts == { <<"a">>, <<" ", "T", "F">> }

\* data in ("a","b","c","d","e","f","g","h")
ChoiceData == { <<"a">>, <<"b">>, <<"c">>, <<"d">>, <<"e">>, <<"f">>, <<"g">>, <<"h">> }

\* The updates: /start, a "take::<test_id>" button, another button with its
\* data, a text message.
Updates ==
    {[kind |-> "start", data |-> <<>>, test_id |-> ""]}
    \cup {[kind |-> "take", data |-> <<>>, test_id |-> t] : t \in TakeIds}
    \cup {[kind |-> "cb", data |-> d, test_id |-> ""] : d \in ButtonData}
    \cup {[kind |-> "text", data |-> raw, test_id |-> ""] : raw \in Texts}

\* The outcome of an API call that may raise.
Outcomes == {"ok", "raises"}

\* No dict: the None of user_states.get(chat_id).
NoDict == 0

\* The identities of dicts: one per chat in user_states, and per running
\* handler the one it holds and the one its finish_test holds.
DictIds == 1..(NumChats + 2 * NumWorkers)

InitSession ==
    /\ user_states = <<>>
    /\ dicts = <<>>
    /\ finished = [c \in Chats |-> 0]
    /\ last_result = [c \in Chats |-> None]

\* del d[k]
DictDel(d, k) == [x \in DOMAIN d \ {k} |-> d[x]]

\* The session dict with key k set to v.
StateSet(state, k, v) == [x \in DOMAIN state \cup {k} |-> IF x = k THEN v ELSE state[x]]

\* The dict start_test_for_user builds.
NewSession(test_id) ==
    [test_id |-> test_id, stage |-> "get_name", index |-> 0, answers |-> <<>>]

QuestionsOf(state) == TESTS[state.test_id].questions

\* Whether callback_query_handler takes `data` as the answer to the current
\* question q: q["type"] == "single" and data in ("a", ..., "h")
AcceptsChoice(q, data) ==
    /\ q.type = "single"
    /\ data \in ChoiceData

\* state["answers"][qid] = answer
RecordAnswer(state, qid, answer) == [state EXCEPT !.answers = DictSet(@, qid, answer)]

\* state["index"] += 1
Advance(state) == [state EXCEPT !.index = @ + 1]

\* A thread with no update to handle.
Idle ==
    [kind |-> "idle", data |-> <<>>, test_id |-> "", chat_id |-> 0, pc |-> "done",
     state |-> NoDict, fstate |-> NoDict, qid |-> "",
     graded |-> 0, acc |-> GradeStart,
     recorded |-> FALSE, advanced |-> FALSE, raised |-> FALSE, keyerror |-> FALSE,
     arrived |-> [stage |-> "none", index |-> 0]]

\* The stage and index of the session of chat_id, for an update that arrives now.
Arrival(chat_id) ==
    IF chat_id \in DOMAIN user_states
    THEN [stage |-> dicts[user_states[chat_id]].stage,
          index |-> dicts[user_states[chat_id]].index]
    ELSE [stage |-> "none", index |-> 0]

\* Where the handler of an update begins.
FirstPc(kind) == IF kind = "start" THEN "start" ELSE IF kind = "take" THEN "take" ELSE "get"

\* A handler about to run for update u of chat_id: `state` is the local of
\* the handler, `fstate` the local of finish_test, `graded` and `acc` are the
\* questions the loop of grade_answers has done and its accumulators, and
\* `arrived` is the session as it was when the update came in.
Dispatched(chat_id, u) ==
    [kind |-> u.kind, data |-> u.data, test_id |-> u.test_id, chat_id |-> chat_id,
     pc |-> FirstPc(u.kind), state |-> NoDict, fstate |-> NoDict, qid |-> "",
     graded |-> 0, acc |-> GradeStart,
     recorded |-> FALSE, advanced |-> FALSE, raised |-> FALSE, keyerror |-> FALSE,
     arrived |-> Arrival(chat_id)]

\* No handler is running.
InitWorkersIdle ==
    /\ workers = [w \in Workers |-> Idle]
    /\ delivered = 0

\* The dicts that user_states `us` or a handler of `ws` refers to.
Referenced(us, ws) ==
    {us[c] : c \in DOMAIN us}
        \cup {ws[w].state : w \in Workers} \cup {ws[w].fstate : w \in Workers}

\* The identity of a dict made now.
NewDict == CHOOSE d \in DictIds : d \notin DOMAIN dicts /\ \A e \in 1..(d - 1) : e \in DOMAIN dicts

\* The step leaves the sessions `us`, the dicts `ds` that are still referred
\* to, and the handlers `ws`.
Become(us, ds, ws) ==
    /\ user_states' = us
    /\ workers' = ws
    /\ dicts' = [d \in DOMAIN ds \cap Referenced(us, ws) |-> ds[d]]

\* The handler of thread w is at pc.
At(w, pc) == workers[w].kind # "idle" /\ workers[w].pc = pc

\* The handlers once the one of thread w has moved to pc, has returned, or
\* has ended with an exception.
Moved(w, pc) == [workers EXCEPT ![w].pc = pc]

Returned(w) ==
    [workers EXCEPT ![w].pc = "done", ![w].fstate = NoDict,
                    ![w].graded = 0, ![w].acc = GradeStart]

Raised(w) == [Returned(w) EXCEPT ![w].raised = TRUE]

\* The handlers once the one of thread w has made its last call of the bot
\* API, which returns or raises.
Ends(w, outcome) == IF outcome = "raises" THEN Raised(w) ELSE Returned(w)

\* The dict the local `state` of the handler of thread w refers to.
Held(w) == dicts[workers[w].state]

\* A step of thread w that touches only its locals.
Local(ws) ==
    /\ Become(user_states, dicts, ws)
    /\ UNCHANGED <<finished, last_result, delivered, grade_vars, parse_vars>>

\* A step of thread w that leaves the dict it holds as `state`.
Write(w, state, ws) ==
    /\ Become(user_states, [dicts EXCEPT ![workers[w].state] = state], ws)
    /\ UNCHANGED <<finished, last_result, delivered, grade_vars, parse_vars>>

\* An update of chat_id arrives and a free thread w of the pool takes it.
Dispatch(w, chat_id, u) ==
    /\ delivered < MaxUpdates
    /\ workers[w].pc = "done"
    /\ delivered' = delivered + 1
    /\ Become(user_states, dicts, [workers EXCEPT ![w] = Dispatched(chat_id, u)])
    /\ UNCHANGED <<finished, last_result, grade_vars, parse_vars>>

\* cmd_start: the list of tests is sent with bot.send_message; no session
\* is touched.
cmd_start(w, outcome) ==
    /\ At(w, "start")
    /\ Local(Ends(w, outcome))

\* start_test_for_user: user_states[chat_id] = a new dict; ws are the
\* handlers when the step is over.
start_test_for_user(chat_id, test_id, ws) ==
    /\ Become(DictSet(user_states, chat_id, NewDict),
              DictSet(dicts, NewDict, NewSession(test_id)),
              ws)
    /\ UNCHANGED <<finished, last_result, delivered, grade_vars, parse_vars>>

\* callback_query_handler for data "take::<test_id>": the session is
\* started and the name asked for, or the button is answered with "test not
\* found"; the calls of the bot API come last.
TakeTest(w, outcome) ==
    /\ At(w, "take")
    /\ IF workers[w].test_id \in DOMAIN TESTS
       THEN start_test_for_user(workers[w].chat_id, workers[w].test_id, Ends(w, outcome))
       ELSE Local(Ends(w, outcome))

\* state = user_states.get(chat_id) of both handlers; without a session the
\* handler answers with a call of the bot API and is over.
WorkerGet(w, outcome) ==
    /\ At(w, "get")
    /\ Local(IF workers[w].chat_id \notin DOMAIN user_states
             THEN Ends(w, outcome)
             ELSE [workers EXCEPT ![w].state = user_states[workers[w].chat_id],
                                  ![w].pc = IF workers[w].kind = "text"
                                            THEN "stage" ELSE "q"])

\* handle_text_message: stage = state["stage"] and the branch it selects
WorkerStage(w) ==
    /\ At(w, "stage")
    /\ Local(IF Held(w).stage = "get_name" THEN Moved(w, "name")
             ELSE IF Held(w).stage = "get_group" THEN Moved(w, "group")
             ELSE IF Held(w).stage = "asking" THEN Moved(w, "q")
             ELSE Returned(w))

\* state["student_name"] = text
StoreName(w) ==
    /\ At(w, "name")
    /\ Write(w, StateSet(Held(w), "student_name", Strip(workers[w].data)),
             Moved(w, "to_group"))

\* state["stage"] = "get_group", and the group is asked for with
\* bot.send_message
ToGetGroup(w, outcome) ==
    /\ At(w, "to_group")
    /\ Write(w, StateSet(Held(w), "stage", "get_group"), Ends(w, outcome))

\* state["group"] = text
StoreGroup(w) ==
    /\ At(w, "group")
    /\ Write(w, StateSet(Held(w), "group", Strip(workers[w].data)), Moved(w, "to_asking"))

\* state["stage"] = "asking"
ToAsking(w) ==
    /\ At(w, "to_asking")
    /\ Write(w, StateSet(Held(w), "stage", "asking"), Moved(w, "reset"))

\* state["index"] = 0
ResetIndex(w) ==
    /\ At(w, "reset")
    /\ Write(w, StateSet(Held(w), "index", 0), Moved(w, "first"))

\* bot.send_message of the title, then
\* send_question_to_user(chat_id, state["test"]["questions"][0]): IndexError
\* for a test without questions
SendFirst(w, outcome) ==
    /\ At(w, "first")
    /\ Local(IF QuestionsOf(Held(w)) = <<>> THEN Raised(w) ELSE Ends(w, outcome))

\* q = state["test"]["questions"][state["index"]]: the text handler raises
\* IndexError past the last question, the callback handler takes q = None
\* and, like for a question or data it does not accept, answers "unknown
\* button" with bot.answer_callback_query and is over.
WorkerQuestion(w, outcome) ==
    /\ At(w, "q")
    /\ Local(IF Held(w).index + 1 \notin DOMAIN QuestionsOf(Held(w))
             THEN (IF workers[w].kind = "text" THEN Raised(w) ELSE Ends(w, outcome))
             ELSE IF workers[w].kind = "cb"
                     /\ ~AcceptsChoice(QuestionsOf(Held(w))[Held(w).index + 1],
                                       workers[w].data)
             THEN Ends(w, outcome)
             ELSE [workers EXCEPT ![w].pc = "store",
                                  ![w].qid = QuestionsOf(Held(w))[Held(w).index + 1].id])

\* The answer an update carries: message.text.strip(), or call.data
AnswerOf(me) == IF me.kind = "text" THEN Strip(me.data) ELSE me.data

\* state["answers"][qid] = text (or data)
WorkerStore(w) ==
    /\ At(w, "store")
    /\ Write(w, RecordAnswer(Held(w), workers[w].qid, AnswerOf(workers[w])),
             [workers EXCEPT ![w].pc = IF workers[w].kind = "cb" THEN "ack" ELSE "inc",
                             ![w].recorded = TRUE])

\* bot.answer_callback_query, which may raise, and bot.delete_message, whose
\* failure is caught
WorkerAck(w, outcome) ==
    /\ At(w, "ack")
    /\ Local(IF outcome = "raises" THEN Raised(w) ELSE Moved(w, "inc"))

\* state["index"] += 1
WorkerAdvance(w) ==
    /\ At(w, "inc")
    /\ Write(w, Advance(Held(w)), [workers EXCEPT ![w].pc = "next", ![w].advanced = TRUE])

\* if state["index"] < len(questions): the next question is to be sent;
\* else: finish_test(chat_id)
WorkerNext(w) ==
    /\ At(w, "next")
    /\ Local(Moved(w, IF Held(w).index < Len(QuestionsOf(Held(w)))
                      THEN "send_q" ELSE "fin_get"))

\* send_question_to_user(chat_id, questions[state["index"]]): IndexError if
\* index is past the last question by now; bot.send_message may raise.
WorkerSend(w, outcome) ==
    /\ At(w, "send_q")
    /\ Local(IF Held(w).index + 1 \notin DOMAIN QuestionsOf(Held(w)) \/ outcome = "raises"
             THEN Raised(w)
             ELSE Returned(w))

\* finish_test: state = user_states.get(chat_id); if not state: return
FinishGet(w) ==
    /\ At(w, "fin_get")
    /\ Local(IF workers[w].chat_id \in DOMAIN user_states
             THEN [workers EXCEPT ![w].fstate = user_states[workers[w].chat_id],
                                  ![w].pc = "fin_grade"]
             ELSE Returned(w))

\* What finish_test has computed once grade_answers and the report `out`
\* are made.
ResultOf(out) ==
    [raised |-> out.raised,
     score |-> out.result.score,
     max_score |-> out.result.max_score,
     manual_needed |-> out.result.manual_needed,
     per_q_scores |-> out.result.per_q_scores]

\* The handler of thread w once its finish_test has graded and built the
\* report, with `result`: an exception of the two ends the handler.
FinishGraded(w, result) ==
    /\ finished' = [finished EXCEPT ![workers[w].chat_id] = @ + 1]
    /\ last_result' = [last_result EXCEPT ![workers[w].chat_id] = result]
    /\ Become(user_states, dicts,
              IF result.raised THEN Raised(w)
              ELSE [workers EXCEPT ![w].pc = "fin_send",
                                   ![w].graded = 0, ![w].acc = GradeStart])
    /\ UNCHANGED <<delivered, grade_vars, parse_vars>>

\* The test and the answers of the dict finish_test got: test = state["test"]
\* and state["answers"], the dict grade_answers reads while handlers may
\* still write to it.
FinishTest(w) == TESTS[dicts[workers[w].fstate].test_id]

FinishAnswers(w) == dicts[workers[w].fstate].answers

\* Whether the loop of grade_answers has a question left.
Grading(w) ==
    /\ workers[w].graded < Len(FinishTest(w).questions)
    /\ ~workers[w].acc.raised

\* grade_answers, one pass of its loop: the question is graded on the
\* answer answers.get(qid, "") finds now
FinishGradeQuestion(w) ==
    /\ At(w, "fin_grade")
    /\ Grading(w)
    /\ Local([workers EXCEPT
                ![w].graded = @ + 1,
                ![w].acc = GradeStep(@, FinishTest(w).questions[workers[w].graded + 1],
                                     FinishAnswers(w))])

\* finish_test: grade_answers returns and the report is built
FinishGrade(w) ==
    /\ At(w, "fin_grade")
    /\ ~Grading(w)
    /\ FinishGraded(w, ResultOf(ReportOf(FinishTest(w), FinishAnswers(w),
                                         GradeReturn(workers[w].acc))))

\* finish_test: save_result_to_sheet, whose failure is caught, and
\* bot.send_message, which may raise
FinishSend(w, outcome) ==
    /\ At(w, "fin_send")
    /\ Local(IF outcome = "raises" THEN Raised(w) ELSE Moved(w, "fin_del"))

\* finish_test: del user_states[chat_id], a KeyError once the entry is gone
FinishDel(w) ==
    /\ At(w, "fin_del")
    /\ IF workers[w].chat_id \in DOMAIN user_states
       THEN /\ Become(DictDel(user_states, workers[w].chat_id), dicts, Returned(w))
            /\ UNCHANGED <<finished, last_result, delivered, grade_vars, parse_vars>>
       ELSE Local([Raised(w) EXCEPT ![w].keyerror = TRUE])

\* finish_test(chat_id), run by the handler of thread w
finish_test(w) ==
    \/ FinishGet(w)
    \/ FinishGradeQuestion(w)
    \/ FinishGrade(w)
    \/ \E outcome \in Outcomes : FinishSend(w, outcome)
    \/ FinishDel(w)

\* The statements both answer paths share: the current question, the answer
\* stored, the index advanced, the next question or finish_test.
AnswerPath(w) ==
    \/ \E outcome \in Outcomes : WorkerQuestion(w, outcome)
    \/ WorkerStore(w)
    \/ WorkerAdvance(w)
    \/ WorkerNext(w)
    \/ \E outcome \in Outcomes : WorkerSend(w, outcome)

\* callback_query_handler, run by thread w
callback_query_handler(w) ==
    \/ \E outcome \in Outcomes : TakeTest(w, outcome)
    \/ \E outcome \in Outcomes : WorkerAck(w, outcome)

\* handle_text_message, run by thread w
handle_text_message(w) ==
    \/ WorkerStage(w)
    \/ StoreName(w)
    \/ \E outcome \in Outcomes : ToGetGroup(w, outcome)
    \/ StoreGroup(w)
    \/ ToAsking(w)
    \/ ResetIndex(w)
    \/ \E outcome \in Outcomes : SendFirst(w, outcome)

\* A step of the handler that thread w runs.
HandlerStep(w) ==
    \/ \E outcome \in Outcomes : cmd_start(w, outcome)
    \/ \E outcome \in Outcomes : WorkerGet(w, outcome)
    \/ callback_query_handler(w)
    \/ handle_text_message(w)
    \/ AnswerPath(w)
    \/ finish_test(w)

\* A step of a running handler.
Handle == \E w \in Workers : HandlerStep(w)

InitGradeIdle ==
    /\ gtest = [questions |-> <<>>]
    /\ ganswers = <<>>
    /\ gout = None

InitParseIdle ==
    /\ pkind = "none"
    /\ psrc = <<>>
    /\ pform = <<>>
    /\ pin = <<>>
    /\ pout = None

Init ==
    /\ InitSession
    /\ InitGradeIdle
    /\ InitParseIdle
    /\ InitWorkersIdle

Next ==
    \/ \E w \in Workers, c \in Chats, u \in Updates : Dispatch(w, c, u)
    \/ Handle

Spec == Init /\ [][Next]_vars

----------------------------------------------------------------------------
(* Grading a test: the inputs are drawn from a pool of questions of every  *)
(* type and a pool of raw answers.                                         *)

\* Longest test graded.
MaxQuestions == 2

\* Questions without their id, as the JSON of a test would hold them.
QuestionPool ==
    << [type |-> "single", text |-> "t", answer |-> <<"a">>],
       [type |-> "single", text |-> "t", answer |-> <<"B">>, points |-> 2],
       [type |-> "single", text |-> "t"],
       [type |-> "matching", text |-> "t",
        answer |-> << <<<<"a">>, 2>>, <<<<"b">>, 1>> >>],
       [type |-> "matching", text |-> "t",
        answer |-> << <<<<"A">>, 1>>, <<<<"a">>, 2>>, <<<<"b">>, 1>> >>],
       [type |-> "matching", text |-> "t", answer |-> <<>>, points |-> 3],
       [type |-> "tf_list", text |-> "t", items |-> <<"i", "i", "i">>,
        answer |-> << <<"T">>, <<"F">>, <<"T">> >>],
       [type |-> "tf_list", text |-> "t", items |-> <<"i", "i", "i">>,
        answer |-> << <<"t">>, <<"F">> >>],
       [type |-> "tf_list", text |-> "t", items |-> <<"i", "i">>, answer |-> <<>>],
       [type |-> "tf_list", text |-> "t", items |-> <<"i", "i">>, points |-> 1,
        answer |-> << <<"T">>, <<"F">>, <<"T">> >>],
       [type |-> "ordering", text |-> "t", options |-> <<"o", "o", "o">>,
        answer |-> << <<"b">>, <<"a">>, <<"c">> >>],
       [type |-> "ordering", text |-> "t", options |-> <<"o", "o">>, answer |-> <<>>],
       [type |-> "ordering", text |-> "t", options |-> <<"o", "o", "o">>, points |-> 1,
        answer |-> << <<"B">>, <<"a">> >>],
       [type |-> "free_text", text |-> "t",
        keywords |-> << <<"a", "b">>, <<"K">> >>],
       [type |-> "free_text", text |-> "t", points |-> 1,
        keywords |-> << <<"a", "b">>, <<"K">>, <<"u">>, <<"v">>, <<"w">>, <<"z">> >>],
       [type |-> "free_text_explain", text |-> "t", points |-> 3],
       [type |-> "essay", text |-> "t"] >>

\* Raw answers a student may have given, by question type; "missing" is
\* drawn apart from these.
AnswerPool(qtype) ==
    IF qtype = "single" THEN << <<"a">>, <<" ", "B", " ">>, <<"c">> >>
    ELSE IF qtype = "matching"
        THEN << <<"a", "-", "2", " ", "b", "=", "1">>,
                <<"a", ":", "2", " ", "b", ":", "1">>,
                <<"a", "2", "b", "3">>,
                <<"x">> >>
    ELSE IF qtype = "tf_list"
        THEN << <<"T", "F", "T">>, <<"t", " ", "f">>,
                <<"T", ",", "F", ",", "T", ",", "T">>, <<"F">> >>
    ELSE IF qtype = "ordering"
        THEN << <<"b", "a", "c">>, <<"b", " ", "a">>,
                <<"B", ",", "a", ",", "c", ",", "a">>, <<"c">> >>
    ELSE IF StartsWithFreeText(qtype)
        THEN << <<"a", "b", " ", "k">>, <<"A", "B">>, <<" ">> >>
    ELSE << <<"a">> >>

\* The question ids of a test of n questions: distinct by position, or all
\* the same when `dup`.
QuestionId(i, dup) == IF dup THEN "q1" ELSE (<<"q1", "q2", "q3", "q4">>)[i]

\* A choice for one position: <<index into QuestionPool, index into the
\* answers of its type, or 0 for no answer>>.
Choices ==
    {<<t, a>> \in (1..Len(QuestionPool)) \X (0..4) :
        a <= Len(AnswerPool(QuestionPool[t].type))}

BuildTest(choice, dup) ==
    [questions |->
        [i \in 1..Len(choice) |-> [id |-> QuestionId(i, dup)] @@ QuestionPool[choice[i][1]]]]

RECURSIVE BuildAnswers(_, _, _, _)
BuildAnswers(choice, dup, i, res) ==
    IF i > Len(choice) THEN res
    ELSE BuildAnswers(choice, dup, i + 1,
            IF choice[i][2] = 0 THEN res
            ELSE DictSet(res, QuestionId(i, dup),
                         AnswerPool(QuestionPool[choice[i][1]].type)[choice[i][2]]))

InitGrade ==
    /\ \E n \in 0..MaxQuestions :
        \E choice \in [1..n -> Choices] :
            \E dup \in {d \in BOOLEAN : d => n >= 2} :
                /\ gtest = BuildTest(choice, dup)
                /\ ganswers = BuildAnswers(choice, dup, 1, <<>>)
    /\ gout = None
    /\ InitSession
    /\ InitParseIdle
    /\ InitWorkersIdle

\* finish_test's grading and report of the drawn test and answers.
Grade ==
    /\ gout = None
    /\ gout' = GradeAndReport(gtest, ganswers)
    /\ UNCHANGED <<gtest, ganswers, session_vars, parse_vars, worker_vars>>

NextGrade == Grade

SpecGrade == InitGrade /\ [][NextGrade]_vars

----------------------------------------------------------------------------
(* Properties of grading, checked under SpecGrade.                         *)

Graded == "result" \in DOMAIN gout

\* Graded, and grade_answers returned its dictionary.
GradedOk == Graded /\ ~gout.result.raised

QuestionIds == {gtest.questions[i].id : i \in 1..Len(gtest.questions)}

UniqueIds == Cardinality(QuestionIds) = Len(gtest.questions)

\* The positions whose score per_q_scores holds: the last question of each id.
Stored ==
    {i \in 1..Len(gtest.questions) :
        \A j \in (i + 1)..Len(gtest.questions) :
            gtest.questions[j].id # gtest.questions[i].id}

StoredScore(i) == gout.result.per_q_scores[gtest.questions[i].id]

StoredDetail(i) == gout.result.details[gtest.questions[i].id]

RECURSIVE SumOver(_, _)
SumOver(f, keys) ==
    IF keys = {} THEN 0
    ELSE LET k == CHOOSE x \in keys : TRUE IN f[k] + SumOver(f, keys \ {k})

\* The free_text family of the specification.
FreeTextFamily == {"free_text", "free_text_explain"}

\* The types whose answer key is a collection of expected items.
KeyedTypes == {"matching", "tf_list", "ordering"}

ZeroKey(q) == q.type \in KeyedTypes /\ Len(QGet(q, "answer", <<>>)) = 0

\* C1: every score stored in per_q_scores lies between 0 and the question's
\* maximum points (explicit points or the type default), in hundredths.
ScoreWithinPoints ==
    GradedOk =>
        \A i \in Stored :
            /\ StoredScore(i) \in Int
            /\ 0 <= StoredScore(i)
            /\ StoredScore(i) <= 100 * question_max_points(gtest.questions[i])

\* C1's case: a tf_list whose key is shorter than its items (the default
\* points), every key position matched, so the score reaches pts exactly.
ScoreWithinPointsWitness ==
    /\ GradedOk
    /\ \E i \in Stored :
        LET q == gtest.questions[i]
        IN  /\ q.type = "tf_list"
            /\ "points" \notin DOMAIN q
            /\ Len(q.answer) # Len(q.items)
            /\ StoredDetail(i).matched = Len(q.answer)
            /\ StoredScore(i) = 100 * Len(q.items)
            /\ StoredScore(i) > 0

\* The scores per_q_scores holds, in the order of the questions (the order of
\* the dict when the ids are unique).
ScoresInOrder == [i \in 1..Len(gtest.questions) |-> StoredScore(i)]

\* The float sum of the first n of the scores, added one by one from 0.
RECURSIVE FloatSum(_, _)
FloatSum(scores, n) ==
    IF n = 0 THEN FloatZero
    ELSE FloatPlus(FloatSum(scores, n - 1), DoubleOf(scores[n]))

\* sum(per_q_scores.values())
SumOfScores == FloatSum(ScoresInOrder, Len(ScoresInOrder))

\* C2: with question ids unique, the sum of the values of per_q_scores,
\* rounded to two decimals, equals score and equals auto_score: score is the
\* float sum rounded, it is the sum of the per-question scores taken as the
\* two-decimal numbers they were rounded to, and auto_score is the same
\* number, free-text keyword scores included.
SumEqualsTotals ==
    (GradedOk /\ UniqueIds) =>
        /\ HundredthsOf(SumOfScores) = gout.result.score
        /\ SumOver(gout.result.per_q_scores, DOMAIN gout.result.per_q_scores)
              = gout.result.score
        /\ gout.result.score = gout.result.auto_score

\* C2 as stated, without the rounding: with question ids unique, the float
\* sum of the values of per_q_scores is the very double score is, and score
\* equals auto_score.
SumEqualsTotalsExactly ==
    (GradedOk /\ UniqueIds) =>
        /\ Canonical(SumOfScores) = Canonical(DoubleOf(gout.result.score))
        /\ gout.result.score = gout.result.auto_score

\* C2's case: a free-text question with a keyword score next to a scored
\* question of another type, where the float sum of the two scores is not
\* the double that score is (0.17 + 0.67 is 0.8400000000000001).
SumEqualsTotalsWitness ==
    /\ GradedOk
    /\ UniqueIds
    /\ Canonical(SumOfScores) # Canonical(DoubleOf(gout.result.score))
    /\ \E i, j \in 1..Len(gtest.questions) :
        /\ gtest.questions[i].type \in FreeTextFamily
        /\ StoredScore(i) > 0
        /\ gtest.questions[j].type \notin FreeTextFamily
        /\ StoredScore(j) > 0

\* C3: manual_needed is true exactly when the test holds a question of the
\* free_text family, whatever the answers and keywords.
ManualIffFreeText ==
    GradedOk =>
        (gout.result.manual_needed <=>
            \E i \in 1..Len(gtest.questions) :
                gtest.questions[i].type \in FreeTextFamily)

\* C3's case: the only free-text question has no keywords and no answer, an
\* unrecognized type stands beside it, and the flag is set.
ManualIffFreeTextWitness ==
    /\ GradedOk
    /\ gout.result.manual_needed
    /\ \E i, j \in 1..Len(gtest.questions) :
        /\ gtest.questions[i].type = "free_text_explain"
        /\ "keywords" \notin DOMAIN gtest.questions[i]
        /\ gtest.questions[i].id \notin DOMAIN ganswers
        /\ gtest.questions[j].type = "essay"

\* C4: a question whose id has no entry in the answer map scores 0, and
\* grading does not raise.
MissingAnswerScoresZero ==
    Graded =>
        /\ ~gout.result.raised
        /\ \A i \in Stored :
            gtest.questions[i].id \notin DOMAIN ganswers => StoredScore(i) = 0

\* Whether the lines of one question show the student's answer, the expected
\* answer, and the awarded and possible points.
ShowsStudent(lines) ==
    \E k \in 1..Len(lines) : DOMAIN lines[k] \cap {"student", "student_map", "answer"} # {}

ShowsExpected(lines) ==
    \E k \in 1..Len(lines) : DOMAIN lines[k] \cap {"correct", "correct_map", "keywords"} # {}

ShowsPoints(lines) ==
    \E k \in 1..Len(lines) :
        /\ DOMAIN lines[k] \cap {"score", "auto_score"} # {}
        /\ "pts" \in DOMAIN lines[k]

\* C6: the breakdown shows, for every question of every type, the student's
\* answer, the expected answer and the awarded and possible points.
ReportShowsAll ==
    (Graded /\ ~gout.raised) =>
        \A i \in 1..Len(gtest.questions) :
            /\ ShowsStudent(gout.report[i])
            /\ ShowsExpected(gout.report[i])
            /\ ShowsPoints(gout.report[i])

\* C7: a matching, tf_list or ordering question whose key has no expected
\* item does not make grading fail, and scores 0.
ZeroKeyScoresZero ==
    (Graded /\ \E i \in 1..Len(gtest.questions) : ZeroKey(gtest.questions[i])) =>
        /\ ~gout.result.raised
        /\ \A i \in Stored : ZeroKey(gtest.questions[i]) => StoredScore(i) = 0

\* C7's case: a tf_list without expected items, worth 2 points by its items,
\* answered with a non-empty list of values.
ZeroKeyScoresZeroWitness ==
    /\ Graded
    /\ \E i \in Stored :
        LET q == gtest.questions[i]
        IN  /\ q.type = "tf_list"
            /\ ZeroKey(q)
            /\ question_max_points(q) = 2
            /\ Len(StoredDetail(i).student) > 0
            /\ StoredScore(i) = 0

\* The positions below N at which the student's parsed value is the expected one.
PositionsRight(student, correct) ==
    {p \in 1..Len(correct) : p <= Len(student) /\ student[p] = correct[p]}

\* C9: a tf_list or ordering question scores (positions below N where the
\* student's value equals the expected one) * (pts / max(1, N)), rounded to
\* hundredths; positions past the student's sequence count as wrong and
\* values past N change nothing; ordering follows the rule of tf_list.
PositionalScore ==
    GradedOk =>
        \A i \in Stored :
            gtest.questions[i].type \in {"tf_list", "ordering"} =>
                LET d == StoredDetail(i)
                    n == Len(d.correct)
                    right == Cardinality(PositionsRight(d.student, d.correct))
                IN  /\ d.matched = right
                    /\ StoredScore(i) =
                          Round2(right, question_max_points(gtest.questions[i]),
                                 IF n >= 1 THEN n ELSE 1)

\* C9's case: a tf_list answered with fewer values than the key has, some of
\* them right, beside an ordering answered with more values than its key has.
PositionalScoreWitness ==
    /\ GradedOk
    /\ \E i, j \in Stored :
        LET d == StoredDetail(i)
            e == StoredDetail(j)
        IN  /\ gtest.questions[i].type = "tf_list"
            /\ Len(d.student) < Len(d.correct)
            /\ d.matched > 0
            /\ StoredScore(i) > 0
            /\ gtest.questions[j].type = "ordering"
            /\ Len(e.student) > Len(e.correct)
            /\ e.matched > 0

----------------------------------------------------------------------------
(* Parsing an answer written from a known value in a known notation.       *)

\* Most pairs in a written matching answer, most values in a written T/F list.
MaxPairs == 2

MaxTf == 3

PairLetters == {"a", "b", "c"}

PairValues == {1, 2, 12}

\* What may stand between the letter and the number of a pair ("" as <<>>),
\* and between two pairs.
WrittenJoiners == { <<"-">>, <<"=">>, <<":">>, <<>> }

WrittenSeparators == { <<",">>, <<";">>, <<":">>, <<" ">>, <<",", " ">> }

TfNotations == {"spaced", "contiguous", "lower_comma"}

\* str(n) for n >= 0
RECURSIVE StrOfInt(_)
StrOfInt(n) == IF n < 10 THEN <<Chr(48 + n)>> ELSE StrOfInt(n \div 10) \o <<Chr(48 + (n % 10))>>

\* The pairs written one after the other, pair i with joiners[i] between its
\* letter and number, `sep` between pairs.
RECURSIVE WriteMatching(_, _, _)
WriteMatching(pairs, joiners, sep) ==
    IF pairs = <<>> THEN <<>>
    ELSE <<pairs[1][1]>> \o joiners[1] \o StrOfInt(pairs[1][2])
         \o (IF Len(pairs) = 1 THEN <<>>
             ELSE sep \o WriteMatching(Tail(pairs), Tail(joiners), sep))

\* The values written in one of the three notations of the T/F list.
RECURSIVE WriteTf(_, _)
WriteTf(values, notation) ==
    IF values = <<>> THEN <<>>
    ELSE LET v == IF notation = "lower_comma" THEN LowerChar(values[1])[1] ELSE values[1]
             sep == IF notation = "spaced" THEN <<" ">>
                    ELSE IF notation = "lower_comma" THEN <<",">> ELSE <<>>
         IN  <<v>> \o (IF Len(values) = 1 THEN <<>> ELSE sep \o WriteTf(Tail(values), notation))

\* The dict a sequence of pairs with distinct letters denotes.
MappingOf(pairs) ==
    [k \in {<<pairs[i][1]>> : i \in 1..Len(pairs)} |->
        pairs[CHOOSE i \in 1..Len(pairs) : <<pairs[i][1]>> = k][2]]

InitParse ==
    /\ \/ \E n \in 0..MaxPairs :
            \E pairs \in [1..n -> PairLetters \X PairValues] :
                \E joiners \in [1..n -> WrittenJoiners] :
                    \E sep \in WrittenSeparators :
                        /\ \A i, j \in 1..n : i # j => pairs[i][1] # pairs[j][1]
                        /\ pkind = "matching"
                        /\ psrc = pairs
                        /\ pform = [joiners |-> joiners, sep |-> sep]
                        /\ pin = WriteMatching(pairs, joiners, sep)
       \/ \E n \in 0..MaxTf :
            \E values \in [1..n -> {"T", "F"}] :
                \E notation \in TfNotations :
                    /\ pkind = "tf_list"
                    /\ psrc = values
                    /\ pform = [notation |-> notation]
                    /\ pin = WriteTf(values, notation)
    /\ pout = None
    /\ InitSession
    /\ InitGradeIdle
    /\ InitWorkersIdle

ParseMatching ==
    /\ pkind = "matching"
    /\ pout = None
    /\ pout' = [value |-> parse_matching_input(pin)]
    /\ UNCHANGED <<pkind, psrc, pform, pin, session_vars, grade_vars, worker_vars>>

ParseTfList ==
    /\ pkind = "tf_list"
    /\ pout = None
    /\ pout' = [value |-> parse_tf_list_input(pin)]
    /\ UNCHANGED <<pkind, psrc, pform, pin, session_vars, grade_vars, worker_vars>>

NextParse == ParseMatching \/ ParseTfList

SpecParse == InitParse /\ [][NextParse]_vars

Parsed == "value" \in DOMAIN pout

\* C5: pairs written with any of the joiners '-', '=', ':' or nothing, and
\* separated by commas, semicolons, colons or whitespace, parse to the mapping
\* they were written from.
MatchingAnyJoiner ==
    (pkind = "matching" /\ Parsed) => pout.value = MappingOf(psrc)

\* C8: a sequence of T/F values written spaced, contiguous, or in lowercase
\* with commas parses to that sequence of "T"/"F" values, whatever its length.
TfNotationsAgree ==
    (pkind = "tf_list" /\ Parsed) =>
        pout.value = [i \in 1..Len(psrc) |-> <<psrc[i]>>]

\* C8's case: a sequence of mixed values written in lowercase with commas.
TfNotationsAgreeWitness ==
    /\ pkind = "tf_list"
    /\ Parsed
    /\ pform.notation = "lower_comma"
    /\ Len(psrc) >= 2
    /\ "T" \in Range(psrc)
    /\ "F" \in Range(psrc)
    /\ pin # psrc
    /\ Len(pout.value) = Len(psrc)

----------------------------------------------------------------------------
(* Properties of the sessions, checked under Spec.                         *)

\* The positions of a handler inside finish_test.
FinishPcs == {"fin_get", "fin_grade", "fin_send", "fin_del"}

\* The handler of thread w handles an option button ('a'..'h') and holds a
\* session dict that is in stage get_name or get_group.
ChoiceBeforeAsking(w) ==
    /\ workers[w].kind = "cb"
    /\ workers[w].data \in ChoiceData
    /\ workers[w].pc # "done"
    /\ workers[w].state # NoDict
    /\ Held(w).stage \in {"get_name", "get_group"}

\* C10: an option button ('a'..'h') handled while the chat's session is in
\* stage get_name or get_group leaves the session's answers and index as they
\* were and does not run finish_test.
ChoiceIgnoredBeforeAsking ==
    [][\A w \in Workers :
          ChoiceBeforeAsking(w)
          => ( /\ workers[w].state \in DOMAIN dicts'
               /\ dicts'[workers[w].state].answers = Held(w).answers
               /\ dicts'[workers[w].state].index = Held(w).index
               /\ workers'[w].pc \notin FinishPcs )]_vars

----------------------------------------------------------------------------
(* Two updates of one chat handled at the same time: both are with their   *)
(* threads when the run begins, and no other update arrives.               *)

\* The sessions the updates arrive in: stage "asking" of t1 at either
\* question or of t2 at its only question, and a session that waits for
\* the group.
ConcSessions ==
    { [test_id |-> "t1", stage |-> "asking", index |-> 0, answers |-> <<>>,
       student_name |-> <<"n">>, group |-> <<"g">>],
      [test_id |-> "t1", stage |-> "asking", index |-> 1,
       answers |-> DictSet(<<>>, "q1", <<"a">>),
       student_name |-> <<"n">>, group |-> <<"g">>],
      [test_id |-> "t2", stage |-> "asking", index |-> 0, answers |-> <<>>,
       student_name |-> <<"n">>, group |-> <<"g">>],
      [test_id |-> "t2", stage |-> "get_group", index |-> 0, answers |-> <<>>,
       student_name |-> <<"n">>] }

\* The handlers of the updates us, one per thread, about to run for chat_id,
\* whose session is `state`.
BothDispatched(chat_id, us, state) ==
    [w \in Workers |->
        [Dispatched(chat_id, us[w]) EXCEPT
            !.arrived = [stage |-> state.stage, index |-> state.index]]]

InitConc ==
    /\ \E state \in ConcSessions :
        /\ user_states = DictSet(<<>>, 1, 1)
        /\ dicts = DictSet(<<>>, 1, state)
        /\ \E us \in [Workers -> Updates] : workers = BothDispatched(1, us, state)
    /\ delivered = NumWorkers
    /\ finished = [c \in Chats |-> 0]
    /\ last_result = [c \in Chats |-> None]
    /\ InitGradeIdle
    /\ InitParseIdle

NextConc == Handle

SpecConc == InitConc /\ [][NextConc]_vars

\* Every handler has returned or raised.
AllDone == \A w \in Workers : workers[w].pc = "done"

\* The handlers of a text or an option button that arrived while the session
\* of chat c was in stage "asking".
WhileAsking(c) ==
    {w \in Workers : /\ workers[w].chat_id = c
                     /\ workers[w].kind \in {"text", "cb"}
                     /\ workers[w].arrived.stage = "asking"}

\* The updates whose handler stored an answer and returned normally.
Answered == { w \in Workers : workers[w].recorded /\ ~workers[w].raised }

\* C11: when two updates of one chat in stage "asking" are handled
\* concurrently, in every interleaving the updates' answers are recorded
\* under the ids of distinct questions, index advances by exactly one per
\* update, finish_test grades the session once, and no handler deletes a
\* user_states entry that is already gone.
ConcurrentUpdatesSerialize ==
    AllDone =>
        \A c \in Chats :
            WhileAsking(c) = Workers =>
                /\ \A w1, w2 \in Answered : w1 # w2 => workers[w1].qid # workers[w2].qid
                /\ \A w \in Workers :
                      workers[w].state # NoDict =>
                          Held(w).index = workers[w].arrived.index
                                + Cardinality({v \in Workers : workers[v].advanced})
                /\ finished[c] <= 1
                /\ \A w \in Workers : ~workers[w].keyerror

----------------------------------------------------------------------------
(* The session between two updates.                                        *)

\* C12: whenever no handler is running, every session of user_states in
\* stage "asking" has 0 <= index < number of questions of its test, for
\* every loaded test (one with no questions included) and for every outcome
\* of the calls finish_test makes.
AskingIndexInRange ==
    AllDone =>
        \A c \in DOMAIN user_states :
            dicts[user_states[c]].stage = "asking"
                => /\ 0 <= dicts[user_states[c]].index
                   /\ dicts[user_states[c]].index < Len(QuestionsOf(dicts[user_states[c]]))

=============================================================================
